---------------------------- MODULE Spec2Model ----------------------------
(***************************************************************************)
(* A model of the three analytical engines of suraksha-ai-service:         *)
(*   ml_models/pattern_analyzer.py  (proximity clustering, hotspots)       *)
(*   ml_models/anomaly_detector.py  (movement profile, anomaly verdicts)   *)
(*   ml_models/risk_predictor.py    (route risk score)                     *)
(* and of the data gateway of database/mongodb_client.py they read and     *)
(* write through.                                                          *)
(*                                                                         *)
(* Units.  Coordinates are integer offsets on a grid of 100 m cells, and   *)
(* geopy's geodesic(), a library the repository imports, is modelled by    *)
(* the taxicab metric on that grid, in metres.  Speeds are in tenths of a  *)
(* km/h, times in seconds, days in whole days.  Risk scores are exact      *)
(* fractions; a returned score is in hundredths (round(x, 2)).             *)
(***************************************************************************)
EXTENDS Integers, Sequences, FiniteSets, TLC

VARIABLES
    \* ---- proximity clustering (pattern_analyzer / anomaly_detector) ----
    clOp,        \* "idle", or the clustering operation that has run
    clPoints,    \* the input point list of the operation
    clFormed,    \* every cluster the greedy loop built, in order
    clResult,    \* what the operation returned
    \* ---- data store behind the gateway (mongodb_client) and the clock ----
    incidents,   \* the incidents collection
    alerts,      \* the panicalerts collection
    predictions, \* the risk_predictions collection (documents stored)
    now,         \* datetime.utcnow(), in days
    \* ---- risk engine (risk_predictor) ----
    riskReq,     \* the request a client submits: route, time_of_day, user_id
    riskCall,    \* the last predict_route_risk call made against the
                 \* collections as they are now, with what it returned
    \* ---- anomaly engine (anomaly_detector) ----
    history,       \* the userlocations collection, per user
    detections,    \* the anomaly_detections collection (documents stored)
    user_profiles, \* AnomalyDetector.user_profiles, the profile cache
    anReq,         \* the request a client submits: user_id, location_data
    anCall,        \* the last detect_anomalies call, with what it returned
    \* ---- pattern engine (pattern_analyzer) ----
    paReq,       \* the request a client submits: area, time_range, types
    paCall,      \* the last analyze_patterns call, with what it returned
    \* ---- concurrent detect_anomalies calls for one user ----
    rcPc,        \* where each call is in _get_user_movement_profile
    rcLocal,     \* each call's local variables: history, profile, verdict
    \* ---- threat assessment (app) ----
    thReq,       \* the request a client submits: location, profile, context
    thCall       \* the last _assess_threat_level call, with what it returned

clusterVars == <<clOp, clPoints, clFormed, clResult>>

storeVars == <<incidents, alerts, predictions, now>>

riskVars == <<riskReq, riskCall>>

anomalyVars == <<history, detections, user_profiles, anReq, anCall>>

patternVars == <<paReq, paCall>>

raceVars == <<rcPc, rcLocal>>

threatVars == <<thReq, thCall>>

vars ==
    <<clusterVars, storeVars, riskVars, anomalyVars, patternVars, raceVars,
      threatVars>>

----------------------------------------------------------------------------
(* Arithmetic helpers *)

Abs(x) == IF x < 0 THEN -x ELSE x

Min(a, b) == IF a <= b THEN a ELSE b

Max(a, b) == IF a >= b THEN a ELSE b

Range(s) == {s[i] : i \in DOMAIN s}

RECURSIVE Gcd(_, _)
Gcd(a, b) == IF b = 0 THEN a ELSE Gcd(b, a % b)

\* A Python float that the engines compute is kept as the exact fraction
\* n / d, with d > 0 and in lowest terms.
Frac(n, d) == LET g == Gcd(Abs(n), d) IN [n |-> n \div g, d |-> d \div g]

FracMul(a, b) ==
    LET g1 == Gcd(Abs(a.n), b.d)
        g2 == Gcd(Abs(b.n), a.d)
    IN  Frac((a.n \div g1) * (b.n \div g2), (a.d \div g2) * (b.d \div g1))

FracLe(a, b) == a.n * b.d <= b.n * a.d

FracMin(a, b) == IF FracLe(a, b) THEN a ELSE b

\* round(x), Python's rounding of a tie to the even neighbour
RoundHalfEven(x) ==
    LET q == x.n \div x.d
        r == x.n % x.d
    IN  IF 2 * r < x.d THEN q
        ELSE IF 2 * r > x.d THEN q + 1
        ELSE IF q % 2 = 0 THEN q ELSE q + 1

RECURSIVE SumSeq(_)
SumSeq(s) == IF s = <<>> THEN 0 ELSE Head(s) + SumSeq(Tail(s))

----------------------------------------------------------------------------
(* Geo primitive *)

\* geodesic(a, b).meters
Geodesic(a, b) == 100 * (Abs(a.lat - b.lat) + Abs(a.lng - b.lng))

----------------------------------------------------------------------------
(* Configuration (config.py) *)

\* HOTSPOT_RADIUS, 0.5 km, in metres
HOTSPOT_RADIUS == 500

MIN_INCIDENTS_FOR_HOTSPOT == 5

\* RISK_PREDICTION_RADIUS, 1.0 km, in metres
RISK_PREDICTION_RADIUS == 1000

\* MOVEMENT_SPEED_THRESHOLD, 100 km/h, in tenths of a km/h
MOVEMENT_SPEED_THRESHOLD == 1000

----------------------------------------------------------------------------
(* PatternAnalyzer._cluster_points *)

\* Points are identified by their index in the input list, so that two
\* records with equal coordinates stay two points.

\* the centroid np.mean gives, kept as the exact fraction sum / n
Centroid(points, members) ==
    [lat |-> SumSeq([k \in DOMAIN members |-> points[members[k]].lat]),
     lng |-> SumSeq([k \in DOMAIN members |-> points[members[k]].lng]),
     n   |-> Len(members)]

\* the test that puts a point into the cluster being built
NearSeedMutant(points, seed, i, radius) ==
    Geodesic(points[seed], points[i]) <= radius + 300

NearSeed(points, seed, i, radius) ==
    Geodesic(points[seed], points[i]) <= radius

\* one iteration of the while loop: pop the seed, collect the points near
\* it, recompute the centre
SeedCluster(points, unclustered, radius) ==
    LET seed    == Head(unclustered)
        rest    == Tail(unclustered)
        near    == SelectSeq(rest, LAMBDA i : NearSeed(points, seed, i, radius))
        members == <<seed>> \o near
    IN  [seed           |-> seed,
         center         |-> IF Len(members) > 1
                            THEN Centroid(points, members)
                            ELSE [lat |-> points[seed].lat,
                                  lng |-> points[seed].lng, n |-> 1],
         points         |-> members,
         incident_count |-> Len(members)]

\* unclustered_points after the pops of one iteration
RemainingMutant(points, unclustered, radius) ==
    Tail(unclustered)

Remaining(points, unclustered, radius) ==
    LET seed == Head(unclustered)
    IN  SelectSeq(Tail(unclustered),
                  LAMBDA i : ~NearSeed(points, seed, i, radius))

RECURSIVE ClusterLoop(_, _, _, _)
ClusterLoop(points, unclustered, radius, built) ==
    IF unclustered = <<>> THEN built
    ELSE ClusterLoop(points, Remaining(points, unclustered, radius), radius,
                     Append(built, SeedCluster(points, unclustered, radius)))

\* every cluster the loop builds, before the minimum-size test
FormedClusters(points, radius) ==
    ClusterLoop(points, [i \in 1..Len(points) |-> i], radius, <<>>)

\* "Only include clusters with minimum incidents"
RetainedMutant(cluster) == TRUE

Retained(cluster) == cluster.incident_count >= MIN_INCIDENTS_FOR_HOTSPOT

_cluster_points(points, radius) ==
    SelectSeq(FormedClusters(points, radius), Retained)

----------------------------------------------------------------------------
(* AnomalyDetector._get_frequent_locations *)

\* the test against cluster['center'], which stays the first location
NearCenterMutant(locations, cluster, i, radius_m) ==
    Geodesic(locations[i], locations[cluster.seed]) <= radius_m + 300

NearCenter(locations, cluster, i, radius_m) ==
    Geodesic(locations[i], locations[cluster.seed]) <= radius_m

\* the index of the first cluster the location is close to, 0 if none
FirstNear(locations, clusters, i, radius_m) ==
    LET hits == {k \in DOMAIN clusters :
                    NearCenter(locations, clusters[k], i, radius_m)}
    IN  IF hits = {} THEN 0
        ELSE CHOOSE k \in hits : \A j \in hits : k <= j

\* the body of "for location in locations"
PlaceLocationMutant(locations, clusters, i, radius_m) ==
    LET hits == {k \in DOMAIN clusters :
                    NearCenter(locations, clusters[k], i, radius_m)}
    IN  IF hits = {}
        THEN Append(clusters, [seed |-> i, center |-> locations[i],
                               points |-> <<i>>, count |-> 1])
        ELSE [k \in DOMAIN clusters |->
                IF k \in hits
                THEN [clusters[k] EXCEPT !.points = Append(@, i),
                                         !.count = @ + 1]
                ELSE clusters[k]]

PlaceLocation(locations, clusters, i, radius_m) ==
    LET k == FirstNear(locations, clusters, i, radius_m)
    IN  IF k = 0
        THEN Append(clusters, [seed |-> i, center |-> locations[i],
                               points |-> <<i>>, count |-> 1])
        ELSE [clusters EXCEPT ![k] = [@ EXCEPT !.points = Append(@, i),
                                               !.count = @ + 1]]

RECURSIVE LocationLoop(_, _, _, _)
LocationLoop(locations, i, radius_m, clusters) ==
    IF i > Len(locations) THEN clusters
    ELSE LocationLoop(locations, i + 1, radius_m,
                      PlaceLocation(locations, clusters, i, radius_m))

\* the clusters list when the loop ends (empty on the early return)
LocationClusters(locations, radius_m) ==
    IF Len(locations) < 5 THEN <<>>
    ELSE LocationLoop(locations, 1, radius_m, <<>>)

_get_frequent_locations(locations, radius_m) ==
    LET frequent == SelectSeq(LocationClusters(locations, radius_m),
                              LAMBDA c : c.count >= 3)
    IN  [k \in DOMAIN frequent |->
            [center |-> frequent[k].center, visit_count |-> frequent[k].count]]

----------------------------------------------------------------------------
(* MongoDBClient: the data gateway *)

\* How a query of the gateway ends:
\*   "ok"    the query runs;
\*   "down"  the driver fails, the client's own except returns [];
\*   "raise" the gateway raises into the engine (the engines wrap every
\*           gateway call in a try for this).
ReadModes == {"ok", "down", "raise"}

\* How an insert ends: stored, or not stored (the client's except returns
\* None, or the write raises into the engine's except).
WriteModes == {"ok", "none", "raise"}

get_incidents_in_area(center, radius_m, start_date, mode) ==
    IF mode = "down" THEN {}
    ELSE {i \in incidents : /\ Geodesic(i.loc, center) <= radius_m
                            /\ i.createdAt >= start_date}

get_panic_alerts_in_area(center, radius_m, start_date, mode) ==
    IF mode = "down" THEN {}
    ELSE {a \in alerts : /\ Geodesic(a.loc, center) <= radius_m
                         /\ a.timestamp >= start_date}

\* the number of documents in risk_predictions after store_risk_prediction
store_risk_prediction(mode) ==
    IF mode = "ok" THEN predictions + 1 ELSE predictions

----------------------------------------------------------------------------
(* RiskPredictor *)

\* A route point is a record [lat, lng], or BadPoint, a payload object
\* without the key 'lat'.  A route whose key 'start' is absent has
\* start = Missing.
BadPoint == [bad |-> TRUE]

Missing == [missing |-> TRUE]

IsPoint(p) == p # BadPoint /\ p # Missing

\* A value the payload or a document gives as a list cannot be a dictionary
\* key: time_modifiers.get(time_of_day, 1.0) and
\* incident_weights.get(incident_type, 1.0) raise TypeError on it.
Unhashable == "<list>"

\* incident_weights.get(incident_type, 1.0), in tenths
IncidentWeightMutant(type) ==
    CASE type = "crime"    -> 30
      [] type = "accident" -> 20
      [] type = "medical"  -> 15
      [] type = "fire"     -> 25
      [] type = "other"    -> 10
      [] OTHER             -> -10

IncidentWeight(type) ==
    CASE type = "crime"    -> 30
      [] type = "accident" -> 20
      [] type = "medical"  -> 15
      [] type = "fire"     -> 25
      [] type = "other"    -> 10
      [] OTHER             -> 10

\* the severity multiplier, in tenths
SeverityMultiplier(severity) ==
    CASE severity = "low"      -> 5
      [] severity = "medium"   -> 10
      [] severity = "high"     -> 15
      [] severity = "critical" -> 20
      [] OTHER                 -> 10

\* the sum of f over a finite set of documents
RECURSIVE IncidentScore(_)
IncidentScore(docs) ==
    IF docs = {} THEN 0
    ELSE LET i == CHOOSE x \in docs : TRUE
         IN  IncidentWeight(i.type) * SeverityMultiplier(i.severity)
                + IncidentScore(docs \ {i})

\* the risk of one point in hundredths: incident_score and panic_score are
\* in hundredths, and (total / 10) * 80 is 8 * total
PointRiskMutant(docs, panic_alerts) ==
    LET total_score == IncidentScore(docs) + Cardinality(panic_alerts) * 200
    IN  Max(2000, Min(8000, 8 * total_score))

\* a dictionary lookup of the loop over the incidents raises: the type or
\* the severity of an incident is a list
PointRiskRaises(docs) ==
    \E i \in docs : i.type = Unhashable \/ i.severity = Unhashable

\* "except Exception: return 20.0" when a lookup raises
_calculate_point_risk(docs, panic_alerts) ==
    IF PointRiskRaises(docs) THEN 2000
    ELSE LET incident_score   == IncidentScore(docs)
             panic_score      == Cardinality(panic_alerts) * 200
             total_score      == incident_score + panic_score
             normalized_score == Min(8000, 8 * total_score)
         IN  Max(500, normalized_score)

\* the risk of the route point, read through the gateway
PointRisk(point, clock, mode) ==
    _calculate_point_risk(
        get_incidents_in_area(point, RISK_PREDICTION_RADIUS, clock - 365, mode),
        get_panic_alerts_in_area(point, RISK_PREDICTION_RADIUS, clock - 365, mode))

\* the except of _calculate_historical_risk: "return 20.0"
HistoricalDefaultMutant(start_point, end_point, waypoints, clock, mode) ==
    LET all_points == <<start_point>> \o waypoints \o <<end_point>>
    IN  IF mode = "raise" \/ \E k \in DOMAIN all_points : ~IsPoint(all_points[k])
        THEN Frac(3000, 1)
        ELSE FracMin(Frac(8000, 1),
                     Frac(SumSeq([k \in DOMAIN all_points |->
                                    PointRisk(all_points[k], clock, mode)]),
                          Len(all_points)))

\* the base risk in hundredths, as a fraction; 20.0 when the try fails
\* (a gateway read raises, or a point has no 'lat')
HistoricalRiskMutant(start_point, end_point, waypoints, clock, mode) ==
    LET all_points == <<start_point>> \o waypoints \o <<end_point>>
    IN  IF mode = "raise" \/ \E k \in DOMAIN all_points : ~IsPoint(all_points[k])
        THEN Frac(2000, 1)
        ELSE Frac(SumSeq([k \in DOMAIN all_points |->
                            PointRisk(all_points[k], clock, mode)])
                    + 100 * predictions,
                  Len(all_points))

_calculate_historical_risk(start_point, end_point, waypoints, clock, mode) ==
    LET all_points == <<start_point>> \o waypoints \o <<end_point>>
    IN  IF mode = "raise" \/ \E k \in DOMAIN all_points : ~IsPoint(all_points[k])
        THEN Frac(2000, 1)
        ELSE LET total_risk  == SumSeq([k \in DOMAIN all_points |->
                                          PointRisk(all_points[k], clock, mode)])
                 point_count == Len(all_points)
                 avg_risk    == Frac(total_risk, point_count)
             IN  FracMin(Frac(8000, 1), avg_risk)

\* time_modifiers.get(time_of_day, 1.0), in tenths
TimeModifierMutant(time_of_day) ==
    CASE time_of_day = "morning"    -> 8
      [] time_of_day = "afternoon"  -> 9
      [] time_of_day = "evening"    -> 11
      [] time_of_day = "night"      -> 15
      [] time_of_day = "late_night" -> 13
      [] OTHER                      -> 10

_get_time_risk_modifier(time_of_day) ==
    CASE time_of_day = "morning"    -> 8
      [] time_of_day = "afternoon"  -> 9
      [] time_of_day = "evening"    -> 11
      [] time_of_day = "night"      -> 13
      [] time_of_day = "late_night" -> 15
      [] OTHER                      -> 10

\* 1.0 when the try fails (an end point without 'lat'); the distance is in
\* metres, so distance_km / 100 * 0.1 is metres / 1000000
_get_route_characteristics_modifier(route) ==
    IF ~IsPoint(route.start) \/ ~IsPoint(route.end) THEN Frac(1, 1)
    ELSE LET distance          == Geodesic(route.start, route.end)
             distance_modifier == Frac(1000000 + distance, 1000000)
             waypoint_count    == Len(route.waypoints)
             waypoint_modifier == Frac(20 + waypoint_count, 20)
         IN  FracMin(Frac(3, 2), FracMul(distance_modifier, waypoint_modifier))

\* min(100, base_risk * time_modifier * route_modifier), in hundredths
RiskScoreMutant(base_risk, time_modifier, route_modifier) ==
    FracMul(FracMul(base_risk, Frac(time_modifier, 10)), route_modifier)

RiskScore(base_risk, time_modifier, route_modifier) ==
    FracMin(Frac(10000, 1),
            FracMul(FracMul(base_risk, Frac(time_modifier, 10)), route_modifier))

\* what predict_route_risk computes and returns, with the clock reading
\* `clock` and the gateway's reads ending as `read`:
\*   raised  the outer except ran (return 30.0, nothing is stored)
\*   score   the returned score, in hundredths
predict_route_risk(route, time_of_day, user_id, clock, read) ==
    IF route.start = Missing \/ time_of_day = Unhashable
    THEN [raised |-> TRUE, score |-> 3000]
    ELSE LET base_risk      == _calculate_historical_risk(
                                   route.start, route.end, route.waypoints,
                                   clock, read)
             time_modifier  == _get_time_risk_modifier(time_of_day)
             route_modifier == _get_route_characteristics_modifier(route)
             risk_score     == RiskScore(base_risk, time_modifier, route_modifier)
         IN  [raised         |-> FALSE,
              base_risk      |-> base_risk,
              time_modifier  |-> time_modifier,
              route_modifier |-> route_modifier,
              risk_score     |-> risk_score,
              score          |-> RoundHalfEven(risk_score)]

\* What predict_route_risk returns once _store_prediction has run with a
\* gateway write that ends as `write`: the handler of _store_prediction keeps
\* every exception of the write, so the call goes on to its return.
StorePredictionMutant(result, write) ==
    IF ~result.raised /\ write = "raise"
    THEN [raised |-> TRUE, score |-> 3000]
    ELSE result

_store_prediction(result, write) == result

----------------------------------------------------------------------------
(* AnomalyDetector *)

\* A telemetry point is a record [lat, lng, speed, timestamp, malformed]:
\* speed = 0 also stands for an absent 'speed' (point.get('speed', 0)), and
\* malformed is "" for a well-formed point, "speed" for a point whose
\* 'speed' is null, "lat" for a point without the key 'lat'.

\* timestamp.hour
Hour(timestamp) == (timestamp \div 3600) % 24

\* MongoDBClient.get_user_location_history(user_id, hours_back=24*7): the
\* user's documents of the last week, oldest first (history keeps them in
\* that order); document timestamps are in seconds, the clock in days
get_user_location_history(user_id, clock, mode) ==
    IF mode = "down" \/ user_id \notin DOMAIN history THEN <<>>
    ELSE SelectSeq(history[user_id],
                   LAMBDA h : h.timestamp >= (clock - 7) * 86400)

\* the number of documents in anomaly_detections after
\* store_anomaly_detection
store_anomaly_detection(mode) ==
    IF mode = "ok" THEN detections + 1 ELSE detections

\* the enriched point i of the sequence; calculated_speed is None
\* (speed_none) when the point's 'speed' is null
ProcessedPoint(location_data, i) ==
    LET point == location_data[i]
    IN  IF i = 1
        THEN [lat |-> point.lat, lng |-> point.lng,
              timestamp |-> point.timestamp,
              calculated_speed |-> 0, speed_none |-> FALSE,
              distance_from_prev |-> 0, time_from_prev |-> 0]
        ELSE LET prev      == location_data[i - 1]
                 distance  == Geodesic(prev, point)
                 time_diff == point.timestamp - prev.timestamp
             IN  [lat |-> point.lat, lng |-> point.lng,
                  timestamp |-> point.timestamp,
                  calculated_speed |->
                      IF point.malformed = "speed" THEN 0
                      ELSE IF point.speed = 0 /\ time_diff > 0
                      THEN (distance * 36) \div time_diff
                      ELSE point.speed,
                  speed_none |-> point.malformed = "speed",
                  distance_from_prev |-> distance,
                  time_from_prev |-> time_diff]

\* _process_location_data raises KeyError on a point without 'lat'
Processable(location_data) ==
    \A i \in DOMAIN location_data : location_data[i].malformed # "lat"

_process_location_data(location_data) ==
    [i \in DOMAIN location_data |-> ProcessedPoint(location_data, i)]

\* the list in ascending order (np.percentile sorts)
RECURSIVE Insert(_, _)
Insert(x, sorted) ==
    IF sorted = <<>> THEN <<x>>
    ELSE IF x <= Head(sorted) THEN <<x>> \o sorted
    ELSE <<Head(sorted)>> \o Insert(x, Tail(sorted))

RECURSIVE Sorted(_)
Sorted(s) == IF s = <<>> THEN <<>> ELSE Insert(Head(s), Sorted(Tail(s)))

\* np.percentile(values, q): linear interpolation between the two ranks
\* around q / 100 * (n - 1)
Percentile(values, q) ==
    LET sorted == Sorted(values)
        n      == Len(values)
        lo     == (q * (n - 1)) \div 100
        rem    == (q * (n - 1)) % 100
    IN  IF lo + 2 > n THEN Frac(sorted[n], 1)
        ELSE Frac(100 * sorted[lo + 1]
                    + rem * (sorted[lo + 2] - sorted[lo + 1]), 100)

\* the profile of a new user; the fields no sub-detector reads (avg_speed,
\* max_speed, speed_std, avg_distance, avg_time_interval, the 95th
\* percentile) are left out of the model's profiles
_get_default_profile ==
    [typical_locations |-> <<>>, speed_percentile_99 |-> Frac(1200, 1)]

\* the pairs (prev, curr) of the history with time_diff > 0
MovingPairs(location_history) ==
    SelectSeq([i \in 1..(Len(location_history) - 1) |-> i + 1],
              LAMBDA i : location_history[i].timestamp
                            - location_history[i - 1].timestamp > 0)

_build_user_profile(location_history) ==
    LET pairs     == MovingPairs(location_history)
        speeds    == [k \in DOMAIN pairs |->
                        (Geodesic(location_history[pairs[k] - 1].loc,
                                  location_history[pairs[k]].loc) * 36)
                          \div (location_history[pairs[k]].timestamp
                                  - location_history[pairs[k] - 1].timestamp)]
        locations == [k \in DOMAIN pairs |-> location_history[pairs[k]].loc]
    IN  [typical_locations   |-> _get_frequent_locations(locations, 100),
         speed_percentile_99 |-> IF speeds = <<>> THEN Frac(0, 1)
                                 ELSE Percentile(speeds, 99)]

\* "if len(history) < 10"
EnoughHistoryMutant(hist) == Len(hist) > 10

EnoughHistory(hist) == ~(Len(hist) < 10)

\* the handler of _get_user_movement_profile: the default profile is
\* returned and nothing is cached
ReadRaisedMutant(user_id) ==
    [profile |-> _get_default_profile,
     cache   |-> user_profiles
                   \cup {[user_id |-> user_id, profile |-> _get_default_profile]},
     read    |-> TRUE]

ReadRaised(user_id) ==
    [profile |-> _get_default_profile, cache |-> user_profiles, read |-> TRUE]

\* What _get_user_movement_profile returns and leaves in the cache, for a
\* gateway read that ends as `read` on a cache miss. user_profiles is the
\* set of the cache's entries [user_id, profile], one per cached user.
_get_user_movement_profile(user_id, clock, read) ==
    LET cached == {e \in user_profiles : e.user_id = user_id}
    IN  IF cached # {}
        THEN [profile |-> (CHOOSE e \in cached : TRUE).profile,
              cache |-> user_profiles, read |-> FALSE]
        ELSE IF read = "raise"
        THEN ReadRaised(user_id)
        ELSE LET hist    == get_user_location_history(user_id, clock, read)
                 profile == IF EnoughHistory(hist)
                            THEN _build_user_profile(hist)
                            ELSE _get_default_profile
             IN  [profile |-> profile,
                  cache   |-> user_profiles
                                \cup {[user_id |-> user_id, profile |-> profile]},
                  read    |-> TRUE]

\* Verdicts; the confidence is in tenths
NoAnomaly == [is_anomaly |-> FALSE, confidence |-> 0, type |-> "None"]

ErrorVerdict == [is_anomaly |-> FALSE, confidence |-> 0, type |-> "error"]

Anomaly(type, confidence) ==
    [is_anomaly |-> TRUE, confidence |-> confidence, type |-> type]

\* max(values)
SeqMax(values) == CHOOSE m \in Range(values) : \A v \in Range(values) : v <= m

\* "if max_speed > config.MOVEMENT_SPEED_THRESHOLD"
ExceedsThresholdMutant(max_speed) == max_speed > 2 * MOVEMENT_SPEED_THRESHOLD

ExceedsThreshold(max_speed) == max_speed > MOVEMENT_SPEED_THRESHOLD

\* "except Exception: return {'is_anomaly': False, 'confidence': 0.0,
\* 'type': 'error'}" of a sub-detector
SubDetectorFailureMutant == NoAnomaly

SubDetectorFailure == ErrorVerdict

\* the list `speeds`: the calculated speeds above 0, in the order of the
\* points
PositiveSpeeds(processed_data) ==
    LET moving == SelectSeq(processed_data, LAMBDA pt : pt.calculated_speed > 0)
    IN  [k \in DOMAIN moving |-> moving[k].calculated_speed]

\* "if speed_changes and max(speed_changes) > 50"
SuddenChangeMutant(speeds) ==
    /\ Len(speeds) > 1
    /\ \E k \in 1..(Len(speeds) - 1) : Abs(speeds[k + 1] - speeds[k]) > 600

SuddenChange(speeds) ==
    LET speed_changes == [k \in 1..(Len(speeds) - 1) |->
                            Abs(speeds[k + 1] - speeds[k])]
    IN  speed_changes # <<>> /\ SeqMax(speed_changes) > 500

\* "if max_speed > user_99th * 1.5"
UnusualMutant(max_speed, user_99th) ==
    ~FracLe(Frac(max_speed, 1), FracMul(user_99th, Frac(1, 2)))

Unusual(max_speed, user_99th) ==
    ~FracLe(Frac(max_speed, 1), FracMul(user_99th, Frac(3, 2)))

\* The comparison "calculated_speed > 0" raises TypeError on a None.
_detect_speed_anomaly(processed_data, user_profile) ==
    IF \E i \in DOMAIN processed_data : processed_data[i].speed_none
    THEN SubDetectorFailure
    ELSE LET speeds == PositiveSpeeds(processed_data)
         IN  IF speeds = <<>> THEN NoAnomaly
             ELSE LET max_speed == SeqMax(speeds)
                      user_99th == user_profile.speed_percentile_99
                  IN  IF ExceedsThreshold(max_speed)
                      THEN Anomaly("excessive_speed", 9)
                      ELSE IF Unusual(max_speed, user_99th)
                      THEN Anomaly("unusual_speed", 8)
                      ELSE IF SuddenChange(speeds)
                      THEN Anomaly("sudden_speed_change", 7)
                      ELSE NoAnomaly

\* The change between two consecutive bearings arctan2(lng_diff, lat_diff),
\* normalised to [0, pi], is the angle between the two movement vectors: it
\* is above pi / 2 exactly when their dot product is negative.
LargeChange(a, b) ==
    (a.lat - a.from_lat) * (b.lat - b.from_lat)
        + (a.lng - a.from_lng) * (b.lng - b.from_lng) < 0

_detect_pattern_anomaly(processed_data, user_profile) ==
    IF Len(processed_data) < 3 THEN NoAnomaly
    ELSE LET steps == [i \in 1..(Len(processed_data) - 1) |->
                          [lat      |-> processed_data[i + 1].lat,
                           lng      |-> processed_data[i + 1].lng,
                           from_lat |-> processed_data[i].lat,
                           from_lng |-> processed_data[i].lng,
                           distance |-> processed_data[i + 1].distance_from_prev]]
             directions == SelectSeq(steps, LAMBDA st : st.distance > 10)
         IN  IF Len(directions) >= 3
             THEN LET changes == 1..(Len(directions) - 1)
                      large_changes ==
                          Cardinality({k \in changes :
                              LargeChange(directions[k], directions[k + 1])})
                  IN  IF 10 * large_changes > 7 * Cardinality(changes)
                      THEN Anomaly("erratic_movement", 6)
                      ELSE NoAnomaly
             ELSE NoAnomaly

\* min(values)
SeqMin(values) == CHOOSE m \in Range(values) : \A v \in Range(values) : m <= v

\* the mean of the minimum distances is above 10 km when their sum, in
\* metres, is above 10000 times their number
_detect_location_anomaly(processed_data, user_profile) ==
    IF user_profile.typical_locations = <<>> THEN NoAnomaly
    ELSE LET typical == user_profile.typical_locations
             min_distances ==
                 [i \in DOMAIN processed_data |->
                     SeqMin([k \in DOMAIN typical |->
                                Geodesic(processed_data[i], typical[k].center)])]
         IN  IF SumSeq(min_distances) > 10000 * Len(min_distances)
             THEN Anomaly("unusual_location", 5)
             ELSE NoAnomaly

\* "if 2 <= current_hour <= 5"
LateNightMutant(current_hour) == 2 <= current_hour /\ current_hour < 5

LateNight(current_hour) == 2 <= current_hour /\ current_hour <= 5

_detect_time_anomaly(processed_data, user_profile) ==
    LET current_hour == Hour(processed_data[1].timestamp)
    IN  IF LateNight(current_hour) THEN Anomaly("unusual_time", 4)
        ELSE NoAnomaly

\* max(anomalies, key=lambda x: x['confidence']): the first of the highest
MaxConfidenceMutant(anomalies) ==
    LET best == CHOOSE k \in DOMAIN anomalies :
                   /\ \A j \in DOMAIN anomalies :
                         anomalies[j].confidence <= anomalies[k].confidence
                   /\ \A j \in (k + 1)..Len(anomalies) :
                         anomalies[j].confidence < anomalies[k].confidence
    IN  anomalies[best]

MaxConfidence(anomalies) ==
    LET best == CHOOSE k \in DOMAIN anomalies :
                   /\ \A j \in DOMAIN anomalies :
                         anomalies[j].confidence <= anomalies[k].confidence
                   /\ \A j \in 1..(k - 1) :
                         anomalies[j].confidence < anomalies[k].confidence
    IN  anomalies[best]

\* What happens to an exception raised while the sequence is enriched, or
\* by "user_id in self.user_profiles" on an unhashable user id: the outer
\* except turns it into the error verdict.
OuterExceptMutant == [escaped |-> TRUE, stored |-> FALSE, read |-> FALSE,
                      cache |-> user_profiles]

OuterExcept == [escaped |-> FALSE, stored |-> FALSE, read |-> FALSE,
                cache |-> user_profiles, verdict |-> ErrorVerdict]

\* What detect_anomalies does and returns, for a gateway read that ends as
\* `read` if the call makes one:
\*   escaped  an exception left the call
\*   verdict  the returned verdict
\*   stored   _store_anomaly_result was reached
\*   cache    user_profiles when the call ends
detect_anomalies(user_id, location_data, clock, read) ==
    IF Len(location_data) < 2
    THEN [escaped |-> FALSE, stored |-> FALSE, read |-> FALSE,
          cache |-> user_profiles, verdict |-> NoAnomaly]
    ELSE IF ~Processable(location_data) \/ user_id = Unhashable
    THEN OuterExcept
    ELSE LET processed_data   == _process_location_data(location_data)
             got              == _get_user_movement_profile(user_id, clock, read)
             user_profile     == got.profile
             speed_anomaly    == _detect_speed_anomaly(processed_data, user_profile)
             pattern_anomaly  == _detect_pattern_anomaly(processed_data, user_profile)
             location_anomaly == _detect_location_anomaly(processed_data, user_profile)
             time_anomaly     == _detect_time_anomaly(processed_data, user_profile)
             anomalies        == <<speed_anomaly, pattern_anomaly,
                                   location_anomaly, time_anomaly>>
         IN  [escaped   |-> FALSE,
              stored    |-> TRUE,
              read      |-> got.read,
              cache     |-> got.cache,
              processed |-> processed_data,
              profile   |-> user_profile,
              anomalies |-> anomalies,
              verdict   |-> MaxConfidence(anomalies)]

\* What detect_anomalies returns once _store_anomaly_result has run with a
\* gateway write that ends as `write`: its handler keeps every exception.
StoreAnomalyMutant(result, write) ==
    IF result.stored /\ write = "raise" THEN OuterExcept ELSE result

_store_anomaly_result(result, write) == result

----------------------------------------------------------------------------
(* PatternAnalyzer *)

\* An incident is a record [id, loc, type, severity, createdAt, hour,
\* stamp] and a panic alert a record [id, loc, timestamp, hour, stamp].  The
\* time is in days, hour is its hour of the day; stamp tells how the gateway hands the time over: "date" for a
\* datetime without time zone, "text" for an ISO string ending in Z, which
\* the engine parses to a datetime with time zone.

\* the documents of a collection in the order find() yields them
RECURSIVE Ordered(_)
Ordered(docs) ==
    IF docs = {} THEN <<>>
    ELSE LET first == CHOOSE x \in docs : \A y \in docs : x.id <= y.id
         IN  <<first>> \o Ordered(docs \ {first})

\* get_incidents_in_area(center, radius, start_date, end_date,
\* incident_types); no type filter when incident_types is None or empty
get_incidents_in_range(center, radius_m, start_date, end_date, types, mode) ==
    IF mode = "down" THEN <<>>
    ELSE Ordered({i \in incidents :
                    /\ Geodesic(i.loc, center) <= radius_m
                    /\ start_date <= i.createdAt
                    /\ i.createdAt <= end_date
                    /\ types # <<>> => i.type \in Range(types)})

get_panic_alerts_in_range(center, radius_m, start_date, end_date, mode) ==
    IF mode = "down" THEN <<>>
    ELSE Ordered({a \in alerts :
                    /\ Geodesic(a.loc, center) <= radius_m
                    /\ start_date <= a.timestamp
                    /\ a.timestamp <= end_date})

\* s[:n]
Take(s, n) == SubSeq(s, 1, Min(n, Len(s)))

\* all_points of _identify_hotspots: the incidents, then the alerts
AllPoints(docs, panic_alerts) ==
    [k \in DOMAIN docs |->
        [lat |-> docs[k].loc.lat, lng |-> docs[k].loc.lng,
         type |-> "incident", subtype |-> docs[k].type,
         severity |-> docs[k].severity, timestamp |-> docs[k].createdAt,
         stamp |-> docs[k].stamp]]
      \o
    [k \in DOMAIN panic_alerts |->
        [lat |-> panic_alerts[k].loc.lat, lng |-> panic_alerts[k].loc.lng,
         type |-> "panic_alert", subtype |-> "emergency",
         severity |-> "high", timestamp |-> panic_alerts[k].timestamp,
         stamp |-> panic_alerts[k].stamp]]

\* severity_weights.get(severity, 2)
SeverityWeight(severity) ==
    CASE severity = "low"      -> 1
      [] severity = "medium"   -> 2
      [] severity = "high"     -> 3
      [] severity = "critical" -> 4
      [] OTHER                 -> 2

\* type_weights.get(point['subtype'], 1); the subtype of a panic alert is
\* 'emergency', which is not a key
TypeWeight(subtype) ==
    CASE subtype = "panic_alert" -> 3
      [] subtype = "crime"       -> 3
      [] subtype = "accident"    -> 2
      [] subtype = "medical"     -> 2
      [] subtype = "fire"        -> 2
      [] subtype = "other"       -> 1
      [] OTHER                   -> 1

\* max(0.1, 1.0 - days_old / 30), in thirtieths
TimeWeight(timestamp, clock) == Max(3, 30 - (clock - timestamp))

_get_risk_level(score) ==
    IF FracLe(score, Frac(10, 1)) /\ score # Frac(10, 1) THEN "low"
    ELSE IF FracLe(score, Frac(20, 1)) /\ score # Frac(20, 1) THEN "moderate"
    ELSE IF FracLe(score, Frac(35, 1)) /\ score # Frac(35, 1) THEN "high"
    ELSE "critical"

\* the hotspot _rank_hotspots makes of a cluster; risk_score is
\* round(final_score, 2) in hundredths.  incident_breakdown,
\* most_common_type and recent_incidents, which no later step except a
\* message reads, are left out, and `points` keeps the cluster's members.
Hotspot(points, cluster, clock) ==
    LET members    == cluster.points
        risk_score == SumSeq([k \in DOMAIN members |->
                                SeverityWeight(points[members[k]].severity)
                                  * TypeWeight(points[members[k]].subtype)])
        weights    == SumSeq([k \in DOMAIN members |->
                                TimeWeight(points[members[k]].timestamp, clock)])
        final      == Frac(risk_score * weights, 30 * Len(members))
    IN  [center         |-> cluster.center,
         incident_count |-> cluster.incident_count,
         raw_score      |-> risk_score,
         risk_score     |-> RoundHalfEven(Frac(100 * final.n, final.d)),
         risk_level     |-> _get_risk_level(final),
         radius_km      |-> HOTSPOT_RADIUS,
         points         |-> members]

\* list.sort(key=risk_score, reverse=True): descending and stable
RECURSIVE InsertRanked(_, _)
InsertRanked(x, ranked) ==
    IF ranked = <<>> THEN <<x>>
    ELSE IF Head(ranked).risk_score >= x.risk_score
    THEN <<Head(ranked)>> \o InsertRanked(x, Tail(ranked))
    ELSE <<x>> \o ranked

SortRankedMutant(items) == items

RECURSIVE SortRanked(_)
SortRanked(items) ==
    IF items = <<>> THEN <<>>
    ELSE InsertRanked(items[Len(items)],
                      SortRanked(SubSeq(items, 1, Len(items) - 1)))

_rank_hotspots(points, clusters, clock) ==
    SortRanked([k \in DOMAIN clusters |-> Hotspot(points, clusters[k], clock)])

\* "now - timestamp" raises TypeError for a timestamp with time zone
RankRaisesMutant(points, clusters) == FALSE

RankRaises(points, clusters) ==
    \E k \in DOMAIN clusters : \E j \in DOMAIN clusters[k].points :
        points[clusters[k].points[j]].stamp = "text"

\* "return ranked_hotspots[:10]"
TopHotspotsMutant(ranked) == ranked

TopHotspots(ranked) == Take(ranked, 10)

_identify_hotspots(docs, panic_alerts, clock) ==
    LET all_points == AllPoints(docs, panic_alerts)
    IN  IF Len(all_points) < MIN_INCIDENTS_FOR_HOTSPOT THEN <<>>
        ELSE LET hotspots == _cluster_points(all_points, HOTSPOT_RADIUS)
             IN  IF RankRaises(all_points, hotspots) THEN <<>>
                 ELSE TopHotspots(_rank_hotspots(all_points, hotspots, clock))

\* _calculate_trend_direction: the halves are the two halves of the sorted
\* event list.  For the ranges of the model the float change_ratio of 11
\* events (6 / 5) is not above 1.2.
TrendDirectionMutant(events, total_days) ==
    IF Len(events) < 4 \/ total_days < 7 THEN "insufficient_data"
    ELSE LET latest == CHOOSE t \in {events[k].timestamp : k \in DOMAIN events} :
                           \A k \in DOMAIN events : events[k].timestamp <= t
             first_half  == Cardinality({k \in DOMAIN events :
                                2 * (latest - events[k].timestamp) >= total_days})
             second_half == Len(events) - first_half
         IN  IF first_half = 0 THEN "stable"
             ELSE IF 5 * second_half > 6 * first_half THEN "increasing"
             ELSE IF 5 * second_half < 4 * first_half THEN "decreasing"
             ELSE "stable"

_calculate_trend_direction(events, total_days) ==
    IF Len(events) < 4 \/ total_days < 7 THEN "insufficient_data"
    ELSE LET mid_point   == Len(events) \div 2
             first_half  == mid_point
             second_half == Len(events) - mid_point
         IN  IF 5 * second_half > 6 * first_half THEN "increasing"
             ELSE IF 5 * second_half < 4 * first_half THEN "decreasing"
             ELSE "stable"

\* all_events of _analyze_trends: the incidents, then the alerts
AllEvents(docs, panic_alerts) ==
    [k \in DOMAIN docs |->
        [timestamp |-> docs[k].createdAt, hour |-> docs[k].hour,
         type |-> docs[k].type, stamp |-> docs[k].stamp]]
      \o
    [k \in DOMAIN panic_alerts |->
        [timestamp |-> panic_alerts[k].timestamp, hour |-> panic_alerts[k].hour,
         type |-> "panic_alert", stamp |-> panic_alerts[k].stamp]]

\* sorted(events, key=timestamp) raises TypeError when it compares a
\* datetime with time zone and one without
SortRaises(events, total_days) ==
    /\ Len(events) >= 4
    /\ total_days >= 7
    /\ \E i, j \in DOMAIN events : events[i].stamp # events[j].stamp

\* the number of events of the type
TypeCount(events, type) ==
    Cardinality({k \in DOMAIN events : events[k].type = type})

\* max(hourly_distribution.items(), key=count)[0]: the hour, in the order
\* of first occurrence, that has the most events; 12 without events
PeakHour(events) ==
    IF events = <<>> THEN 12
    ELSE LET count(h) == Cardinality({k \in DOMAIN events : events[k].hour = h})
             best == CHOOSE k \in DOMAIN events :
                        /\ \A j \in DOMAIN events :
                              count(events[j].hour) <= count(events[k].hour)
                        /\ \A j \in 1..(k - 1) :
                              count(events[j].hour) < count(events[k].hour)
         IN  events[best].hour

\* the stage's default, the empty dictionary
NoTrends == <<>>

\* The dictionary _analyze_trends returns; peak_day and the hourly and
\* daily distributions are left out, daily_average is in hundredths.
_analyze_trends(docs, panic_alerts, start_date, end_date) ==
    LET all_events == AllEvents(docs, panic_alerts)
        total_days == end_date - start_date
    IN  IF SortRaises(all_events, total_days) THEN NoTrends
        ELSE [total_incidents    |-> Len(docs),
              total_panic_alerts |-> Len(panic_alerts),
              daily_average      |-> RoundHalfEven(Frac(100 * Len(all_events),
                                                        Max(1, total_days))),
              peak_hour          |-> PeakHour(all_events),
              type_distribution  |->
                  [t \in {all_events[k].type : k \in DOMAIN all_events} |->
                      TypeCount(all_events, t)],
              trend_direction    |->
                  _calculate_trend_direction(all_events, total_days)]

\* grid_size of _identify_risk_zones, 0.005 degrees, in millionths of a
\* degree; one unit of the coordinate grid is a thousandth of a degree
GridSize == 5000

\* a coordinate of the grid in millionths of a degree
Micro(unit) == 1000 * unit

\* radius_km / 111.0 in millionths of a degree.  The areas of the model lie
\* on the equator, where the cosine that divides lng_range is 1.
GridRange(radius_m) == (radius_m * 1000) \div 111

\* np.arange(-range, range, grid_size): the offsets of the grid lines
GridOffsets(radius_m) ==
    LET range == GridRange(radius_m)
    IN  [k \in 1..((2 * range + GridSize - 1) \div GridSize) |->
            (k - 1) * GridSize - range]

\* the membership test of a cell: both distances at most half the grid size
InCellMutant(loc, grid_lat, grid_lng) ==
    /\ 2 * Abs(Micro(loc.lat) - grid_lat) < GridSize
    /\ 2 * Abs(Micro(loc.lng) - grid_lng) < GridSize

InCell(loc, grid_lat, grid_lng) ==
    /\ 2 * Abs(Micro(loc.lat) - grid_lat) <= GridSize
    /\ 2 * Abs(Micro(loc.lng) - grid_lng) <= GridSize

\* cell_risk = incident_count * 2 + alert_count * 3
CellRiskMutant(incident_count, alert_count) ==
    2 * incident_count + 2 * alert_count

CellRisk(incident_count, alert_count) ==
    2 * incident_count + 3 * alert_count

\* the threshold of a risk zone
ZoneThreshold == 3

\* the zone of one grid cell
Zone(docs, panic_alerts, grid_lat, grid_lng) ==
    LET incident_count ==
            Cardinality({k \in DOMAIN docs :
                            InCell(docs[k].loc, grid_lat, grid_lng)})
        alert_count ==
            Cardinality({k \in DOMAIN panic_alerts :
                            InCell(panic_alerts[k].loc, grid_lat, grid_lng)})
        cell_risk == CellRisk(incident_count, alert_count)
    IN  [center         |-> [lat |-> grid_lat, lng |-> grid_lng],
         risk_score     |-> cell_risk,
         incident_count |-> incident_count,
         alert_count    |-> alert_count,
         risk_level     |-> _get_risk_level(Frac(cell_risk * 10, 1))]

\* the cells in the order of the two loops, latitude outermost
GridCells(center, radius_m) ==
    LET offsets == GridOffsets(radius_m)
        n       == Len(offsets)
    IN  [k \in 1..(n * n) |->
            [lat |-> Micro(center.lat) + offsets[((k - 1) \div n) + 1],
             lng |-> Micro(center.lng) + center.lng_micro
                        + offsets[((k - 1) % n) + 1]]]

\* the cells that reach the threshold, in the order of the loops
RiskCells(docs, panic_alerts, cells) ==
    SelectSeq([k \in DOMAIN cells |->
                  Zone(docs, panic_alerts, cells[k].lat, cells[k].lng)],
              LAMBDA zone : zone.risk_score >= ZoneThreshold)

\* return risk_zones[:20]
TopZonesMutant(ranked) == ranked

TopZones(ranked) == Take(ranked, 20)

_identify_risk_zones(docs, panic_alerts, center, radius_m) ==
    TopZones(SortRanked(RiskCells(docs, panic_alerts,
                                  GridCells(center, radius_m))))

\* max(type_distribution.items(), ...) raises ValueError on the empty
\* distribution of a trends dictionary without events
InsightsRaise(trends) ==
    /\ DOMAIN trends # {}
    /\ DOMAIN trends.type_distribution = {}

\* the count of the most common type
MostCommon(trends) ==
    LET dist == trends.type_distribution
    IN  CHOOSE c \in {dist[t] : t \in DOMAIN dist} :
            \A t \in DOMAIN dist : dist[t] <= c

\* The types of the insights of _generate_insights, in order.
_generate_insights(docs, panic_alerts, hotspots, trends) ==
    IF InsightsRaise(trends) THEN <<>>
    ELSE LET total == Len(docs) + Len(panic_alerts)
             known == DOMAIN trends # {}
         IN  (IF hotspots # <<>> THEN <<"hotspot">> ELSE <<>>)
               \o
             (IF known /\ total > 0
                 /\ (trends.peak_hour >= 22 \/ trends.peak_hour <= 5)
              THEN <<"temporal">> ELSE <<>>)
               \o
             (IF known /\ total > 0 /\ trends.trend_direction = "increasing"
              THEN <<"trend">> ELSE <<>>)
               \o
             (IF known /\ 10 * MostCommon(trends) >= 4 * total
              THEN <<"incident_pattern">> ELSE <<>>)
               \o
             (IF total > 20 THEN <<"safety">> ELSE <<>>)

\* the result of the outer handler of analyze_patterns
PatternDefaultMutant ==
    [hotspots |-> <<>>, trends |-> NoTrends, risk_zones |-> <<>>]

PatternDefault ==
    [hotspots |-> <<>>, trends |-> NoTrends, risk_zones |-> <<>>,
     insights |-> <<>>]

\* area['center'], area['radius_km'] and the two dates of time_range are
\* read before the first stage
PatternRequestRaises(area, time_range) ==
    area = Missing \/ time_range = Missing

\* analyze_patterns: the two reads, the four stages, the outer handler
analyze_patterns(area, time_range, incident_types, clock, read) ==
    IF PatternRequestRaises(area, time_range) \/ read = "raise"
    THEN PatternDefault
    ELSE LET docs == get_incidents_in_range(area.center, area.radius_m,
                         time_range.start, time_range.end, incident_types,
                         read)
             panic_alerts == get_panic_alerts_in_range(area.center,
                         area.radius_m, time_range.start, time_range.end, read)
             hotspots == _identify_hotspots(docs, panic_alerts, clock)
             trends == _analyze_trends(docs, panic_alerts, time_range.start,
                                       time_range.end)
         IN  [hotspots   |-> hotspots,
              trends     |-> trends,
              risk_zones |-> _identify_risk_zones(docs, panic_alerts,
                                 area.center, area.radius_m),
              insights   |-> _generate_insights(docs, panic_alerts, hotspots,
                                                trends)]

----------------------------------------------------------------------------
(* The state of the engines that a specification leaves alone *)

NoCall == [op |-> "none"]

StoreIdle ==
    /\ incidents = {}
    /\ alerts = {}
    /\ predictions = 0
    /\ now = 365

RiskIdle ==
    /\ riskReq = NoCall
    /\ riskCall = NoCall

AnomalyIdle ==
    /\ history = <<>>
    /\ detections = 0
    /\ user_profiles = {}
    /\ anReq = NoCall
    /\ anCall = NoCall

ClusterIdle ==
    /\ clOp = "idle"
    /\ clPoints = <<>>
    /\ clFormed = <<>>
    /\ clResult = <<>>

PatternIdle ==
    /\ paReq = NoCall
    /\ paCall = NoCall

RaceIdle ==
    /\ rcPc = <<>>
    /\ rcLocal = <<>>

ThreatIdle ==
    /\ thReq = NoCall
    /\ thCall = NoCall

----------------------------------------------------------------------------
(* The clustering operations applied to every bounded point list *)

MaxPoints == 6

ClusterPositions ==
    {[lat |-> 0, lng |-> 0], [lat |-> 0, lng |-> 1], [lat |-> 0, lng |-> 2],
     [lat |-> 2, lng |-> 3], [lat |-> 2, lng |-> 6]}

PointLists == UNION {[1..n -> ClusterPositions] : n \in 0..MaxPoints}

InitCluster ==
    /\ clOp = "idle"
    /\ clPoints \in PointLists
    /\ clFormed = <<>>
    /\ clResult = <<>>
    /\ StoreIdle
    /\ RiskIdle
    /\ AnomalyIdle
    /\ PatternIdle
    /\ RaceIdle
    /\ ThreatIdle

ClusterPoints ==
    /\ clOp = "idle"
    /\ clOp' = "_cluster_points"
    /\ clFormed' = FormedClusters(clPoints, HOTSPOT_RADIUS)
    /\ clResult' = _cluster_points(clPoints, HOTSPOT_RADIUS)
    /\ UNCHANGED <<clPoints, storeVars, riskVars, anomalyVars, patternVars,
                   raceVars, threatVars>>

GetFrequentLocations ==
    /\ clOp = "idle"
    /\ clOp' = "_get_frequent_locations"
    /\ clFormed' = LocationClusters(clPoints, 100)
    /\ clResult' = _get_frequent_locations(clPoints, 100)
    /\ UNCHANGED <<clPoints, storeVars, riskVars, anomalyVars, patternVars,
                   raceVars, threatVars>>

NextCluster == ClusterPoints \/ GetFrequentLocations

SpecCluster == InitCluster /\ [][NextCluster]_vars

----------------------------------------------------------------------------
(* The risk engine over a changing store and an advancing clock *)

MaxTicks == 1

MaxPredictions == 1

MaxGrown == 4

PlaceA == [lat |-> 0, lng |-> 0]

PlaceB == [lat |-> 0, lng |-> 20]

PlaceFar == [lat |-> 6000, lng |-> 0]

\* documents the backend may insert into the incidents collection; the
\* third has a type outside the weight table and no severity
IncidentPool ==
    {[id |-> 1, loc |-> PlaceA, type |-> "crime", severity |-> "critical",
      createdAt |-> 300],
     [id |-> 2, loc |-> [lat |-> 0, lng |-> 10], type |-> "fire",
      severity |-> "high", createdAt |-> 0],
     [id |-> 3, loc |-> PlaceB, type |-> "vandalism", severity |-> "absent",
      createdAt |-> 200]}

AlertPool == {[id |-> 1, loc |-> PlaceA, timestamp |-> 100]}

Routes ==
    [start : {PlaceA, PlaceB, PlaceFar, Missing}, end : {PlaceA},
     waypoints : {<<>>, <<PlaceB>>, <<BadPoint>>}]

TimesOfDay ==
    {"morning", "afternoon", "evening", "night", "late_night", "day", Unhashable}

UserIds == {"u1", "u2"}

Requests == [route : Routes, time_of_day : TimesOfDay, user_id : UserIds]

\* The request is drawn once: a client submits it, and submits it again,
\* while the store, the clock and the gateway's health change.
InitRisk ==
    /\ StoreIdle
    /\ riskReq \in Requests
    /\ riskCall = NoCall
    /\ ClusterIdle
    /\ AnomalyIdle
    /\ PatternIdle
    /\ RaceIdle
    /\ ThreatIdle

\* the documents a query made at the clock reading can return: those of
\* the last 365 days
WindowDocs(clock) ==
    <<{i \in incidents : i.createdAt >= clock - 365},
      {a \in alerts : a.timestamp >= clock - 365}>>

\* riskCall.again records that the call before this one was made against
\* the same collections with reads ending the same way, and
\* riskCall.sameWindow that the two queries' windows held the same documents.
PredictRouteRisk(read, write) ==
    \E result \in {_store_prediction(
                       predict_route_risk(riskReq.route, riskReq.time_of_day,
                                          riskReq.user_id, now, read),
                       write)} :
    LET again == riskCall # NoCall /\ riskCall.read = read
    IN  /\ write = "ok" => predictions < MaxPredictions
        /\ riskCall' = [op |-> "predict_route_risk", read |-> read,
                        write |-> write, at |-> now, result |-> result,
                        again |-> again,
                        sameWindow |-> again /\ WindowDocs(riskCall.at)
                                                  = WindowDocs(now)]
        /\ predictions' = IF result.raised THEN predictions
                          ELSE store_risk_prediction(write)
        /\ UNCHANGED <<incidents, alerts, now, riskReq, clusterVars,
                       anomalyVars, patternVars, raceVars, threatVars>>

\* the backend records an incident
AddIncident(i) ==
    /\ i \notin incidents
    /\ incidents' = incidents \cup {i}
    /\ riskCall' = NoCall
    /\ UNCHANGED <<alerts, predictions, now, riskReq, clusterVars,
                   anomalyVars, patternVars, raceVars, threatVars>>

\* the backend records a panic alert
AddAlert(a) ==
    /\ a \notin alerts
    /\ alerts' = alerts \cup {a}
    /\ riskCall' = NoCall
    /\ UNCHANGED <<incidents, predictions, now, riskReq, clusterVars,
                   anomalyVars, patternVars, raceVars, threatVars>>

\* a day passes
Tick ==
    /\ now < 365 + MaxTicks
    /\ now' = now + 1
    /\ UNCHANGED <<incidents, alerts, predictions, riskVars, clusterVars,
                   anomalyVars, patternVars, raceVars, threatVars>>

NextRisk ==
    \/ \E read \in ReadModes, write \in WriteModes : PredictRouteRisk(read, write)
    \/ \E i \in IncidentPool : AddIncident(i)
    \/ \E a \in AlertPool : AddAlert(a)
    \/ Tick

SpecRisk == InitRisk /\ [][NextRisk]_vars

----------------------------------------------------------------------------
(* The anomaly engine over bounded telemetry and a growing history *)

MaxTelemetry == 4

MaxDetections == 1

MaxHistory == 12

\* Telemetry shapes: four places on one street, with 'speed' absent, and
\* two malformed points.  One minute apart, Here -> Near is 6 km/h,
\* Near -> Mid 66 km/h, Here -> Mid 72 km/h, Mid -> Far 84 km/h and
\* Here -> Far 156 km/h.
Here == [lat |-> 0, lng |-> 0, speed |-> 0, malformed |-> ""]

Near == [lat |-> 0, lng |-> 1, speed |-> 0, malformed |-> ""]

Mid == [lat |-> 0, lng |-> 12, speed |-> 0, malformed |-> ""]

Far == [lat |-> 0, lng |-> 26, speed |-> 0, malformed |-> ""]

NullSpeed == [lat |-> 0, lng |-> 1, speed |-> 0, malformed |-> "speed"]

NoLat == [lat |-> 0, lng |-> 0, speed |-> 0, malformed |-> "lat"]

TelemetryShapes == {Here, Near, Mid, Far}

MalformedShapes == {NullSpeed, NoLat}

\* The sequences of n shapes; a malformed point is the last of its
\* sequence (enrichment stops at the first point without 'lat').
ShapeLists(n) ==
    [1..n -> TelemetryShapes]
      \cup (IF n = 1 THEN {<<m>> : m \in MalformedShapes}
            ELSE {Append(t, m) : t \in [1..(n - 1) -> TelemetryShapes],
                                 m \in MalformedShapes})

\* the points of a sequence that starts at t0, one minute apart
Stamp(shapes, t0) ==
    [i \in DOMAIN shapes |->
        [lat |-> shapes[i].lat, lng |-> shapes[i].lng,
         speed |-> shapes[i].speed, malformed |-> shapes[i].malformed,
         timestamp |-> t0 + 60 * (i - 1)]]

\* 03:00 and 12:00
StartTimes == {3 * 3600, 12 * 3600}

\* the first second of every hour, and the last second of some
HourTimes == {h * 3600 : h \in 0..23} \cup {h * 3600 + 3599 : h \in {1, 5}}

AnomalyRequests ==
    {[user_id |-> "u1", location_data |-> Stamp(t, t0)] :
        t \in UNION {ShapeLists(n) : n \in 1..MaxTelemetry}, t0 \in StartTimes}
      \cup
    {[user_id |-> u, location_data |-> Stamp(<<Here, p>>, t0)] :
        u \in {"u1", Unhashable}, p \in {Here, Near}, t0 \in HourTimes}

\* Document n of the user's location history: two from day 300, then one
\* every ten minutes on day 364, to and fro between two places 100 m apart.
HistoryDoc(n) ==
    IF n <= 2
    THEN [loc |-> [lat |-> 0, lng |-> 0], timestamp |-> 300 * 86400 + 600 * n]
    ELSE [loc |-> [lat |-> 93, lng |-> n % 2],
          timestamp |-> 364 * 86400 + 600 * n]

InitAnomaly ==
    /\ anReq \in AnomalyRequests
    /\ anCall = NoCall
    /\ history = [u \in {"u1"} |-> [n \in 1..(MaxHistory - 1) |-> HistoryDoc(n)]]
    /\ detections = 0
    /\ user_profiles = {}
    /\ StoreIdle
    /\ RiskIdle
    /\ ClusterIdle
    /\ PatternIdle
    /\ RaceIdle
    /\ ThreatIdle

\* one call of detect_anomalies; the gateway's read and write end as
\* `read` and `write` when the call makes them
DetectAnomalies(read, write) ==
    \E result \in {_store_anomaly_result(
                       detect_anomalies(anReq.user_id, anReq.location_data,
                                        now, read),
                       write)} :
        /\ (result.stored /\ write = "ok") => detections < MaxDetections
        /\ anCall' = [op |-> "detect_anomalies",
                      read |-> IF result.read THEN read ELSE "unused",
                      write |-> IF result.stored THEN write ELSE "unused",
                      result |-> result]
        /\ user_profiles' = result.cache
        /\ detections' = IF result.stored THEN store_anomaly_detection(write)
                         ELSE detections
        /\ UNCHANGED <<history, anReq, storeVars, riskVars, clusterVars,
                       patternVars, raceVars, threatVars>>

\* the backend records the user's next location
RecordLocation ==
    /\ Len(history["u1"]) < MaxHistory
    /\ history' = [history EXCEPT
                      !["u1"] = Append(@, HistoryDoc(Len(@) + 1))]
    /\ anCall' = NoCall
    /\ UNCHANGED <<detections, user_profiles, anReq, storeVars, riskVars,
                   clusterVars, patternVars, raceVars, threatVars>>

NextAnomaly ==
    \/ \E read \in ReadModes, write \in WriteModes : DetectAnomalies(read, write)
    \/ RecordLocation

SpecAnomaly == InitAnomaly /\ [][NextAnomaly]_vars

----------------------------------------------------------------------------
(* analyze_patterns applied to bounded stores and requests (SpecPattern) *)

MaxPerHalf == 7
MaxPlaces == 11
MaxCells == 21

MaxOnBorder == 3

Incident(id, lat, lng, type, severity, createdAt, hour, stamp) ==
    [id |-> id, loc |-> [lat |-> lat, lng |-> lng], type |-> type,
     severity |-> severity, createdAt |-> createdAt, hour |-> hour,
     stamp |-> stamp]

Alert(id, lat, lng, timestamp, hour, stamp) ==
    [id |-> id, loc |-> [lat |-> lat, lng |-> lng], timestamp |-> timestamp,
     hour |-> hour, stamp |-> stamp]

\* the request of analyze_patterns; the range ends at the clock
PatternRequest(area, days, incident_types) ==
    [op |-> "analyze_patterns", area |-> area,
     time_range |-> IF days = 0 THEN Missing
                    ELSE [start |-> 365 - days, end |-> 365],
     incident_types |-> incident_types]

\* An area whose centre lies on the equator, lng_micro millionths of a
\* degree east of the origin of the coordinate grid.  The distance of the
\* range query leaves this part of the centre out; the scenes keep their
\* points well inside the area.
AreaAt(lng_micro, radius_m) ==
    [center |-> [lat |-> 0, lng |-> 0, lng_micro |-> lng_micro],
     radius_m |-> radius_m]

Area(radius_m) == AreaAt(0, radius_m)

\* Scenes of the first kind: n1 incidents early in the range and n2 late,
\* all at the centre, alternately crimes and accidents; possibly an alert
\* 100 m or 900 m from them, possibly one time handed over as text.
TrendScene(n1, n2, days, alert, text, area, incident_types) ==
    [incidents |->
        {Incident(k, 0, 0, IF k % 2 = 1 THEN "crime" ELSE "accident", "medium",
                  IF k <= n1 THEN 365 - days + 2 ELSE 365 - 2,
                  IF k <= n1 THEN 14 ELSE 23,
                  IF text = "incident" /\ k = 1 THEN "text" ELSE "date")
           : k \in 1..(n1 + n2)},
     alerts |->
        IF alert = "none" THEN {}
        ELSE {Alert(1, 0, IF alert = "near" THEN 1 ELSE 9, 365 - 1, 23,
                    IF text = "alert" THEN "text" ELSE "date")},
     req |-> PatternRequest(area, days, incident_types)]

TrendScenes ==
    {TrendScene(n1, n2, days, alert, text, area, incident_types) :
        n1 \in 0..MaxPerHalf, n2 \in 0..MaxPerHalf, days \in {6, 10},
        alert \in {"none", "near", "far"},
        text \in {"none", "incident", "alert"},
        area \in {Area(2000)}, incident_types \in {<<>>, <<"crime">>}}
      \cup
    {TrendScene(3, 3, days, "none", "none", area, <<>>) :
        days \in {0, 10}, area \in {Area(2000), Missing}}

\* the places of the scenes of the second kind, 800 m apart
Place(k) == [lat |-> 8 * ((k - 1) \div 3) - 12, lng |-> 8 * ((k - 1) % 3) - 8]

\* Scenes of the second kind: five incidents at each of m places; the
\* incidents of the place "hot" are critical crimes, those of the others
\* medical, fire and other incidents of low or medium severity, older from place to place; the place "thin" has four incidents.
HotspotScene(m, hot, thin) ==
    [incidents |->
        UNION {{Incident(5 * (k - 1) + j, Place(k).lat, Place(k).lng + (j % 2),
                         IF k = hot THEN "crime"
                         ELSE IF k % 3 = 0 THEN "medical"
                         ELSE IF k % 3 = 1 THEN "fire" ELSE "other",
                         IF k = hot THEN "critical"
                         ELSE IF k % 2 = 0 THEN "low" ELSE "medium",
                         365 - (k % 4), 10, "date")
                  : j \in 1..(IF k = thin THEN 4 ELSE 5)}
               : k \in 1..m},
     alerts |-> {},
     req |-> PatternRequest(Area(3000), 10, <<>>)]

HotspotScenes ==
    {HotspotScene(m, hot, thin) :
        m \in 0..MaxPlaces, hot \in 0..MaxPlaces, thin \in {0, 1}}

\* the spots of the scenes of the third kind, one in each of 24 grid cells
ZoneSpot(k) ==
    LET a == (k - 1) \div 4
        b == 5 * ((k - 1) % 4) - 8
    IN  IF a <= 3 THEN [lat |-> 5 * a - 8, lng |-> b]
        ELSE IF a = 4 THEN [lat |-> 12, lng |-> b]
        ELSE [lat |-> b, lng |-> 12]

\* Scenes of the third kind: one alert in each of z cells, and possibly
\* incidents in the last of these cells or in the next cell.
ZoneScene(z, extra) ==
    [incidents |->
        CASE extra = "none" -> {}
          [] extra = "beside_alert" ->
                {Incident(1, ZoneSpot(Max(z, 1)).lat, ZoneSpot(Max(z, 1)).lng,
                          "other", "low", 364, 10, "date")}
          [] extra = "lone" ->
                {Incident(1, ZoneSpot(z + 1).lat, ZoneSpot(z + 1).lng,
                          "other", "low", 364, 10, "date")}
          [] extra = "pair" ->
                {Incident(j, ZoneSpot(z + 1).lat, ZoneSpot(z + 1).lng,
                          "other", "low", 364, 10, "date") : j \in 1..2},
     alerts |->
        {Alert(k, ZoneSpot(k).lat, ZoneSpot(k).lng, 364, 10, "date")
           : k \in 1..z},
     req |-> PatternRequest(Area(2000), 10, <<>>)]

ZoneScenes ==
    {ZoneScene(z, extra) :
        z \in 0..MaxCells, extra \in {"none", "beside_alert", "lone", "pair"}}

\* Scenes of the fourth kind: an area of 1.11 km, whose grid has four rows
\* and four columns of cells, around a centre at the origin or half a cell
\* east of it; n incidents and a alerts at the origin, which then lies
\* inside a cell or on the border of two cells, and `inner` incidents
\* 100 m north and east of it, inside a cell.
BorderScene(lng_micro, n, a, inner) ==
    [incidents |->
        {Incident(j, 0, 0, "other", "low", 364, 10, "date") : j \in 1..n}
          \cup
        {Incident(n + j, 1, 1, "other", "low", 364, 10, "date")
           : j \in 1..inner},
     alerts |-> {Alert(k, 0, 0, 364, 10, "date") : k \in 1..a},
     req |-> PatternRequest(AreaAt(lng_micro, 1110), 10, <<>>)]

BorderScenes ==
    {BorderScene(lng_micro, n, a, inner) :
        lng_micro \in {0, GridSize \div 2}, n \in 0..MaxOnBorder,
        a \in 0..1, inner \in 0..2}

InitPattern ==
    /\ \E scene \in TrendScenes \cup HotspotScenes \cup ZoneScenes
                        \cup BorderScenes :
          /\ incidents = scene.incidents
          /\ alerts = scene.alerts
          /\ paReq = scene.req
    /\ paCall = NoCall
    /\ predictions = 0
    /\ now = 365
    /\ RiskIdle
    /\ AnomalyIdle
    /\ ClusterIdle
    /\ RaceIdle
    /\ ThreatIdle

\* one call of analyze_patterns; the gateway's reads end as "read" says
AnalyzePatterns(read) ==
    \E result \in {analyze_patterns(paReq.area, paReq.time_range,
                                    paReq.incident_types, now, read)} :
        /\ paCall' = [op |-> "analyze_patterns",
                      read |-> IF PatternRequestRaises(paReq.area,
                                                       paReq.time_range)
                               THEN "unused" ELSE read,
                      result |-> result]
        /\ UNCHANGED <<paReq, storeVars, riskVars, anomalyVars, clusterVars,
                       raceVars, threatVars>>

NextPattern == \E read \in ReadModes : AnalyzePatterns(read)

SpecPattern == InitPattern /\ [][NextPattern]_vars

----------------------------------------------------------------------------
(* Concurrent calls of detect_anomalies for one user (SpecRace) *)

\* The server handles each request in a thread of its own and all share the
\* one AnomalyDetector.  A call is a sequence of steps; each step reads or
\* writes the shared dictionary at most once, which the interpreter does
\* atomically.  rcPc[w] is the step worker w is about to take and
\* rcLocal[w] its local variables.

MaxWorkers == 2

Workers == 1..MaxWorkers

NoLocal == [history |-> <<>>, profile |-> Missing, verdict |-> Missing]

\* "self.user_profiles[user_id] = profile": the entry of the user is
\* replaced
CachePutMutant(cache, user_id, profile) ==
    cache \cup {[user_id |-> user_id, profile |-> profile]}

CachePut(cache, user_id, profile) ==
    {e \in cache : e.user_id # user_id}
        \cup {[user_id |-> user_id, profile |-> profile]}

\* the profile a call makes of the history it read
ProfileOf(hist) ==
    IF EnoughHistory(hist) THEN _build_user_profile(hist)
    ELSE _get_default_profile

RaceRequests ==
    {[user_id |-> "u1", location_data |-> Stamp(t, 12 * 3600)] :
        t \in {<<Here, Near>>, <<Here, Mid>>, <<Here, Far>>}}

InitRace ==
    /\ anReq \in RaceRequests
    /\ anCall = NoCall
    /\ history = [u \in {"u1"} |-> [n \in 1..(MaxHistory - 1) |-> HistoryDoc(n)]]
    /\ detections = 0
    /\ user_profiles = {}
    /\ rcPc = [w \in Workers |-> "idle"]
    /\ rcLocal = [w \in Workers |-> NoLocal]
    /\ StoreIdle
    /\ RiskIdle
    /\ ClusterIdle
    /\ PatternIdle
    /\ ThreatIdle

\* the call begins: the length test and _process_location_data
Begin(w) ==
    /\ rcPc[w] = "idle"
    /\ Len(anReq.location_data) >= 2
    /\ Processable(anReq.location_data)
    /\ rcPc' = [rcPc EXCEPT ![w] = "lookup"]
    /\ UNCHANGED <<rcLocal, anomalyVars, storeVars, riskVars, clusterVars,
                   patternVars, threatVars>>

\* "if user_id in self.user_profiles"
Lookup(w) ==
    /\ rcPc[w] = "lookup"
    /\ rcPc' = [rcPc EXCEPT ![w] =
                  IF \E e \in user_profiles : e.user_id = anReq.user_id
                  THEN "fetch" ELSE "read"]
    /\ UNCHANGED <<rcLocal, anomalyVars, storeVars, riskVars, clusterVars,
                   patternVars, threatVars>>

\* "return self.user_profiles[user_id]"
Fetch(w) ==
    /\ rcPc[w] = "fetch"
    /\ \E e \in user_profiles :
          /\ e.user_id = anReq.user_id
          /\ rcLocal' = [rcLocal EXCEPT ![w].profile = e.profile]
    /\ rcPc' = [rcPc EXCEPT ![w] = "detect"]
    /\ UNCHANGED <<anomalyVars, storeVars, riskVars, clusterVars, patternVars,
                   threatVars>>

\* the gateway's read of the history; a read that raises ends in the
\* handler, which returns the default profile and caches nothing
ReadHistory(w, read) ==
    /\ rcPc[w] = "read"
    /\ IF read = "raise"
       THEN /\ rcLocal' = [rcLocal EXCEPT ![w].profile = _get_default_profile]
            /\ rcPc' = [rcPc EXCEPT ![w] = "detect"]
       ELSE /\ rcLocal' = [rcLocal EXCEPT ![w].history =
                             get_user_location_history(anReq.user_id, now, read)]
            /\ rcPc' = [rcPc EXCEPT ![w] = "build"]
    /\ UNCHANGED <<anomalyVars, storeVars, riskVars, clusterVars, patternVars,
                   threatVars>>

\* the default profile or _build_user_profile(history)
BuildProfile(w) ==
    /\ rcPc[w] = "build"
    /\ rcLocal' = [rcLocal EXCEPT ![w].profile = ProfileOf(rcLocal[w].history)]
    /\ rcPc' = [rcPc EXCEPT ![w] = "store"]
    /\ UNCHANGED <<anomalyVars, storeVars, riskVars, clusterVars, patternVars,
                   threatVars>>

\* "self.user_profiles[user_id] = profile"
CacheProfile(w) ==
    /\ rcPc[w] = "store"
    /\ user_profiles' = CachePut(user_profiles, anReq.user_id,
                                 rcLocal[w].profile)
    /\ rcPc' = [rcPc EXCEPT ![w] = "detect"]
    /\ UNCHANGED <<rcLocal, history, detections, anReq, anCall, storeVars,
                   riskVars, clusterVars, patternVars, threatVars>>

\* the four sub-detectors, the choice of the verdict and the write of it
RunDetectors(w, write) ==
    /\ rcPc[w] = "detect"
    /\ \E processed \in {_process_location_data(anReq.location_data)} :
          rcLocal' = [rcLocal EXCEPT ![w].verdict =
              MaxConfidence(
                  <<_detect_speed_anomaly(processed, rcLocal[w].profile),
                    _detect_pattern_anomaly(processed, rcLocal[w].profile),
                    _detect_location_anomaly(processed, rcLocal[w].profile),
                    _detect_time_anomaly(processed, rcLocal[w].profile)>>)]
    /\ detections' = store_anomaly_detection(write)
    /\ rcPc' = [rcPc EXCEPT ![w] = "done"]
    /\ UNCHANGED <<history, user_profiles, anReq, anCall, storeVars, riskVars,
                   clusterVars, patternVars, threatVars>>

\* the user's device records one more location
RaceRecordLocation ==
    /\ Len(history["u1"]) < MaxHistory
    /\ history' = [history EXCEPT
                      !["u1"] = Append(@, HistoryDoc(Len(@) + 1))]
    /\ UNCHANGED <<detections, user_profiles, anReq, anCall, raceVars,
                   storeVars, riskVars, clusterVars, patternVars, threatVars>>

NextRace ==
    \/ \E w \in Workers : Begin(w)
    \/ \E w \in Workers : Lookup(w)
    \/ \E w \in Workers : Fetch(w)
    \/ \E w \in Workers, read \in ReadModes : ReadHistory(w, read)
    \/ \E w \in Workers : BuildProfile(w)
    \/ \E w \in Workers : CacheProfile(w)
    \/ \E w \in Workers, write \in WriteModes : RunDetectors(w, write)
    \/ RaceRecordLocation

SpecRace == InitRace /\ [][NextRace]_vars

----------------------------------------------------------------------------
(* Both engines with a gateway whose writes succeed or fail (SpecPersist) *)

PersistRiskRequests ==
    [route : [start : {PlaceA, Missing}, end : {PlaceA}, waypoints : {<<>>}],
     time_of_day : {"day", "night"}, user_id : {"u1"}]

PersistAnomalyRequests ==
    {[user_id |-> "u1", location_data |-> Stamp(t, 12 * 3600)] :
        t \in {<<Here>>, <<Here, Near>>, <<Here, Far>>, <<Here, NoLat>>}}

InitPersist ==
    /\ incidents = {i \in IncidentPool : i.id = 1}
    /\ alerts = {}
    /\ predictions = 0
    /\ now = 365
    /\ riskReq \in PersistRiskRequests
    /\ riskCall = NoCall
    /\ anReq \in PersistAnomalyRequests
    /\ anCall = NoCall
    /\ history = [u \in {"u1"} |-> [n \in 1..(MaxHistory - 1) |-> HistoryDoc(n)]]
    /\ detections = 0
    /\ user_profiles = {}
    /\ ClusterIdle
    /\ PatternIdle
    /\ RaceIdle
    /\ ThreatIdle

NextPersist ==
    \/ \E read \in ReadModes, write \in WriteModes : PredictRouteRisk(read, write)
    \/ \E read \in ReadModes, write \in WriteModes : DetectAnomalies(read, write)

SpecPersist == InitPersist /\ [][NextPersist]_vars

----------------------------------------------------------------------------
(* The risk engine called before and after the store grows (SpecGrow) *)

\* the documents the backend may insert: those of IncidentPool, an
\* accident of low severity, and two whose type or severity is a list
GrowPool ==
    IncidentPool
      \cup
    {[id |-> 4, loc |-> PlaceA, type |-> "accident", severity |-> "low",
      createdAt |-> 300],
     [id |-> 5, loc |-> PlaceA, type |-> Unhashable, severity |-> "low",
      createdAt |-> 300],
     [id |-> 6, loc |-> PlaceB, type |-> "medical", severity |-> Unhashable,
      createdAt |-> 200]}

GrowRequests ==
    [route : [start : {PlaceA, PlaceB, Missing}, end : {PlaceA},
              waypoints : {<<>>, <<PlaceB>>}],
     time_of_day : {"morning", "day", "late_night"}, user_id : {"u1"}]

InitGrow ==
    /\ incidents = {}
    /\ alerts = {}
    /\ predictions = 0
    /\ now = 365
    /\ riskReq \in GrowRequests
    /\ riskCall = NoCall
    /\ ClusterIdle
    /\ AnomalyIdle
    /\ PatternIdle
    /\ RaceIdle
    /\ ThreatIdle

\* what is kept of the last call when the store grows: the call, and the
\* document recorded since
Grown(call, kind, doc) ==
    [op |-> "grown", read |-> call.read, write |-> call.write, at |-> call.at,
     result |-> call.result, again |-> FALSE, sameWindow |-> FALSE,
     kind |-> kind, doc |-> doc]

\* the backend records an incident after a call of the client; a document
\* recorded when no call is remembered leaves none to compare with
RecordIncident(i) ==
    /\ i \notin incidents
    /\ Cardinality(incidents) < MaxGrown
    /\ incidents' = incidents \cup {i}
    /\ riskCall' = IF riskCall.op = "predict_route_risk"
                   THEN Grown(riskCall, "incident", i)
                   ELSE NoCall
    /\ UNCHANGED <<alerts, predictions, now, riskReq, clusterVars,
                   anomalyVars, patternVars, raceVars, threatVars>>

\* the backend records a panic alert after a call of the client
RecordAlert(a) ==
    /\ a \notin alerts
    /\ alerts' = alerts \cup {a}
    /\ riskCall' = IF riskCall.op = "predict_route_risk"
                   THEN Grown(riskCall, "alert", a)
                   ELSE NoCall
    /\ UNCHANGED <<incidents, predictions, now, riskReq, clusterVars,
                   anomalyVars, patternVars, raceVars, threatVars>>

NextGrow ==
    \/ \E read \in ReadModes, write \in WriteModes : PredictRouteRisk(read, write)
    \/ \E i \in GrowPool : RecordIncident(i)
    \/ \E a \in AlertPool : RecordAlert(a)

SpecGrow == InitGrow /\ [][NextGrow]_vars

----------------------------------------------------------------------------
(* _assess_threat_level applied to bounded requests (SpecThreat) *)

\* a key the context does not carry
Absent == "<absent>"

\* context.get('time_of_day', 'day')
TimeOfDay(context) ==
    IF context.time_of_day = Absent THEN "day" ELSE context.time_of_day

\* the time-based factor: what is added to the score, and the factor noted
TimeFactorMutant(time_of_day) ==
    IF time_of_day \in {"night", "late_evening"}
    THEN [add |-> 35, factors |-> <<"Late hour increases risk">>]
    ELSE IF time_of_day = "evening"
    THEN [add |-> 8, factors |-> <<"Evening hours have moderate risk">>]
    ELSE [add |-> 0, factors |-> <<>>]

TimeFactor(time_of_day) ==
    IF time_of_day \in {"night", "late_evening"}
    THEN [add |-> 15, factors |-> <<"Late hour increases risk">>]
    ELSE IF time_of_day = "evening"
    THEN [add |-> 8, factors |-> <<"Evening hours have moderate risk">>]
    ELSE [add |-> 0, factors |-> <<>>]

\* the weather-based factor; context.get('weather') of an absent key is
\* None, which is no poor weather
WeatherFactor(weather) ==
    IF weather \in {"rainy", "foggy"}
    THEN [add |-> 10, factors |-> <<"Poor weather conditions">>]
    ELSE [add |-> 0, factors |-> <<>>]

\* the level of a score
ThreatLevel(base_score) ==
    IF base_score < 30 THEN "low"
    ELSE IF base_score < 50 THEN "moderate"
    ELSE IF base_score < 70 THEN "high"
    ELSE "critical"

ThreatRecommendations(level) ==
    CASE level = "low"      -> <<"Normal safety precautions">>
      [] level = "moderate" -> <<"Increased awareness recommended",
                                 "Share location with contacts">>
      [] level = "high"     -> <<"Exercise caution",
                                 "Consider alternative routes">>
      [] OTHER              -> <<"Avoid area if possible",
                                 "Contact emergency services if in danger">>

\* What _assess_threat_level returns.  A context that is no dictionary (a
\* null or a list in the payload) has no method get: the function raises
\* at its first use of the context and computes nothing.
_assess_threat_level(location, user_profile, context) ==
    IF context = Missing THEN [raised |-> TRUE]
    ELSE LET time    == TimeFactor(TimeOfDay(context))
             weather == WeatherFactor(context.weather)
             base_score == 20 + time.add + weather.add
             level   == ThreatLevel(base_score)
         IN  [raised          |-> FALSE,
              level           |-> level,
              score           |-> Min(100, base_score),
              factors         |-> time.factors \o weather.factors,
              recommendations |-> ThreatRecommendations(level)]

\* the contexts of the requests: every time of day the service knows, one
\* it does not know, a list, and an absent key; the weathers likewise
Contexts ==
    [time_of_day : {"morning", "day", "evening", "late_evening", "night",
                    "late_night", "dusk", Unhashable, Absent},
     weather : {"clear", "rainy", "foggy", "stormy", Unhashable, Absent}]
      \cup {Missing}

Profiles ==
    {[age_group |-> Absent, gender |-> Absent, travel_mode |-> Absent],
     [age_group |-> "adult", gender |-> "female", travel_mode |-> "walking"]}

ThreatRequests ==
    [location : {PlaceA, PlaceFar}, user_profile : Profiles, context : Contexts]

InitThreat ==
    /\ thReq \in ThreatRequests
    /\ thCall = NoCall
    /\ StoreIdle
    /\ RiskIdle
    /\ ClusterIdle
    /\ AnomalyIdle
    /\ PatternIdle
    /\ RaceIdle

\* one call of _assess_threat_level
AssessThreat ==
    /\ thCall = NoCall
    /\ thCall' = [op |-> "_assess_threat_level",
                  result |-> _assess_threat_level(thReq.location,
                                                  thReq.user_profile,
                                                  thReq.context)]
    /\ UNCHANGED <<thReq, clusterVars, storeVars, riskVars, anomalyVars,
                   patternVars, raceVars>>

NextThreat == AssessThreat

SpecThreat == InitThreat /\ [][NextThreat]_vars

----------------------------------------------------------------------------
(* Properties of the clustering operations (SpecCluster) *)

\* the input points that are members of some cluster of the list
Members(clusters) == UNION {Range(clusters[k].points) : k \in DOMAIN clusters}

\* the formed cluster an input point was put in
ClusterOf(i) == CHOOSE k \in DOMAIN clFormed : i \in Range(clFormed[k].points)

\* the radius the operation that ran was given
RadiusUsed == IF clOp = "_cluster_points" THEN HOTSPOT_RADIUS ELSE 100

\* C3, as claimed: the members of the clusters _cluster_points returns are
\* together the whole input, no input point is left out.
C3_ReturnedCoverInput ==
    clOp = "_cluster_points" => Members(clResult) = DOMAIN clPoints

\* C3, amended: the clusters the greedy loop builds contain every input
\* point, and _cluster_points returns exactly those of them that have at
\* least MIN_INCIDENTS_FOR_HOTSPOT members, so an input point is in the
\* result if and only if its cluster reached that size.
C3_FormedCoverInput ==
    clOp = "_cluster_points" =>
        /\ Members(clFormed) = DOMAIN clPoints
        /\ Members(clResult) =
              {i \in DOMAIN clPoints :
                  clFormed[ClusterOf(i)].incident_count
                      >= MIN_INCIDENTS_FOR_HOTSPOT}

\* a returned hotspot cluster beside a point that was left out
C3_Witness ==
    /\ clOp = "_cluster_points"
    /\ clResult # <<>>
    /\ Members(clResult) # DOMAIN clPoints

\* C4: in both clustering operations no input point is a member of two
\* clusters, and no cluster holds a point twice.
C4_NoPointInTwoClusters ==
    clOp # "idle" =>
        /\ \A j, k \in DOMAIN clFormed :
              j # k => Range(clFormed[j].points) \cap Range(clFormed[k].points) = {}
        /\ \A k \in DOMAIN clFormed :
              Cardinality(Range(clFormed[k].points)) = Len(clFormed[k].points)
        /\ \A j, k \in DOMAIN clResult :
              clOp = "_cluster_points" /\ j # k =>
                  Range(clResult[j].points) \cap Range(clResult[k].points) = {}

\* a clustered point that lies within the radius of two clusters' seeds
C4_Witness ==
    /\ clOp # "idle"
    /\ \E j, k \in DOMAIN clFormed : \E i \in Range(clFormed[j].points) :
          /\ j # k
          /\ i # clFormed[j].seed
          /\ Geodesic(clPoints[i], clPoints[clFormed[k].seed]) <= RadiusUsed

\* C5: every member of every cluster lies within the radius of the
\* cluster's seed point, whatever the recomputed centre is.
C5_MembersNearSeed ==
    clOp # "idle" =>
        \A k \in DOMAIN clFormed : \A i \in Range(clFormed[k].points) :
            /\ clFormed[k].points[1] = clFormed[k].seed
            /\ Geodesic(clPoints[clFormed[k].seed], clPoints[i]) <= RadiusUsed

\* a returned hotspot whose recomputed centre is no longer its seed, with a
\* member exactly on the radius
C5_Witness ==
    /\ clOp = "_cluster_points"
    /\ \E k \in DOMAIN clResult :
          LET c == clResult[k]
          IN  /\ c.center.n > 1
              /\ c.center.lat # c.center.n * clPoints[c.seed].lat
              /\ \E i \in Range(c.points) :
                    Geodesic(clPoints[c.seed], clPoints[i]) = HOTSPOT_RADIUS

----------------------------------------------------------------------------
(* Properties of the risk engine (SpecRisk) *)

Predicted == riskCall # NoCall

\* the severity order of the times of day
TimeRank(time_of_day) ==
    CASE time_of_day = "morning"    -> 1
      [] time_of_day = "afternoon"  -> 2
      [] time_of_day = "evening"    -> 3
      [] time_of_day = "night"      -> 4
      [] time_of_day = "late_night" -> 5
      [] OTHER                      -> 0

\* the score the call would have returned for another time of day
ScoreAt(time_of_day) ==
    predict_route_risk(riskReq.route, time_of_day, riskReq.user_id,
                       riskCall.at, riskCall.read).score

\* C2: whatever the route, the time of day, the store and the gateway's
\* health, the returned score lies in [0, 100].
C2_ScoreInRange ==
    Predicted => riskCall.result.score >= 0 /\ riskCall.result.score <= 10000

\* a computed score that the cap of 100 cut
C2_Witness ==
    /\ Predicted
    /\ ~riskCall.result.raised
    /\ riskCall.result.score = 10000
    /\ riskCall.result.base_risk = Frac(8000, 1)

\* C6: with route, user, store and gateway held fixed, the score does not
\* decrease along morning, afternoon, evening, night, late_night.
C6_MonotoneInTimeOfDay ==
    Predicted /\ TimeRank(riskReq.time_of_day) > 0 =>
        \A t \in TimesOfDay :
            /\ TimeRank(t) > TimeRank(riskReq.time_of_day)
                  => ScoreAt(t) >= riskCall.result.score
            /\ TimeRank(t) > 0 /\ TimeRank(t) < TimeRank(riskReq.time_of_day)
                  => ScoreAt(t) <= riskCall.result.score

\* a night score strictly between the evening and the late-night score
C6_Witness ==
    /\ Predicted
    /\ riskReq.time_of_day = "night"
    /\ ~riskCall.result.raised
    /\ ScoreAt("evening") < riskCall.result.score
    /\ riskCall.result.score < ScoreAt("late_night")

\* C7, as claimed: a second call with the same route, time of day and user,
\* the collections unchanged in between, returns the score of the first.
C7_SameScoreTwice ==
    [][(Predicted /\ riskCall' # NoCall /\ riskCall'.again)
          => riskCall'.result.score = riskCall.result.score]_vars

\* C7, amended: the second call returns the score of the first when,
\* besides, the 365-day window that ends at the clock reading holds the
\* same documents at both calls; the prediction the first call stored is
\* not read.
C7_SameScoreSameWindow ==
    [][(Predicted /\ riskCall' # NoCall /\ riskCall'.sameWindow)
          => riskCall'.result.score = riskCall.result.score]_vars

\* a repeated call, after the first one stored its prediction, on a later
\* day whose window still holds the same documents
C7_Witness ==
    /\ Predicted
    /\ riskCall.sameWindow
    /\ predictions > 0
    /\ riskCall.write # "ok"
    /\ riskCall.at > 365
    /\ incidents # {}
    /\ ~riskCall.result.raised

\* the case of C10: a start and an end, no waypoints, "day", reads that do
\* not raise, and no incident or alert within the radius of an endpoint
NothingNear(point) ==
    /\ \A i \in incidents : Geodesic(i.loc, point) > RISK_PREDICTION_RADIUS
    /\ \A a \in alerts : Geodesic(a.loc, point) > RISK_PREDICTION_RADIUS

C10_Case ==
    /\ Predicted
    /\ IsPoint(riskReq.route.start)
    /\ IsPoint(riskReq.route.end)
    /\ riskReq.route.waypoints = <<>>
    /\ riskReq.time_of_day = "day"
    /\ riskCall.read # "raise"
    /\ NothingNear(riskReq.route.start)
    /\ NothingNear(riskReq.route.end)

\* C10, as claimed: in that case the base risk is 20 and the score is
\* about 20.0.
C10_BaseTwenty ==
    C10_Case =>
        /\ riskCall.result.base_risk = Frac(2000, 1)
        /\ riskCall.result.score >= 1900
        /\ riskCall.result.score <= 2100

\* C10, amended: in that case every point has the floor risk 5, the base
\* risk is 5 and the score is 5 times the route modifier: 5.0 for a short
\* route, at most 7.5.
C10_BaseFive ==
    C10_Case =>
        /\ riskCall.result.base_risk = Frac(500, 1)
        /\ riskCall.result.time_modifier = 10
        /\ riskCall.result.score
              = RoundHalfEven(FracMul(Frac(500, 1), riskCall.result.route_modifier))
        /\ riskCall.result.score >= 500
        /\ riskCall.result.score <= 750
        /\ Geodesic(riskReq.route.start, riskReq.route.end) <= 2000
              => riskCall.result.score <= 501

\* the case with incidents in the store, none of them near the route
C10_Witness ==
    /\ C10_Case
    /\ riskCall.read = "ok"
    /\ incidents # {}
    /\ riskCall.result.score = 500

\* a step of the call failed: the route has no 'start' or the time of day
\* is unhashable (caught by the outer except), or a gateway read raised or
\* a route point has no 'lat' (caught inside the step)
OuterFailure ==
    riskReq.route.start = Missing \/ riskReq.time_of_day = Unhashable

InnerFailure ==
    \/ riskCall.read = "raise"
    \/ ~IsPoint(riskReq.route.end)
    \/ \E k \in DOMAIN riskReq.route.waypoints :
          ~IsPoint(riskReq.route.waypoints[k])

\* C13 as stated: if any internal step of predict_route_risk fails, a
\* gateway read that raises during the historical risk included, the call
\* returns the default score 30.0.
C13_AnyFailureGivesThirty ==
    (Predicted /\ (OuterFailure \/ InnerFailure)) => riskCall.result.score = 3000

\* C13 as amended: the call always returns a score; a failure that reaches
\* the outer except gives 30.0; a failure inside the historical-risk step
\* (a gateway read that raises, a point without 'lat') is caught there and
\* gives the base risk 20.0, from which the score is computed as usual.
C13_OuterFailureGivesThirty ==
    Predicted =>
        /\ riskCall.result.score \in 0..10000
        /\ OuterFailure => riskCall.result.raised /\ riskCall.result.score = 3000
        /\ (~OuterFailure /\ InnerFailure) =>
              /\ ~riskCall.result.raised
              /\ riskCall.result.base_risk = Frac(2000, 1)
              /\ riskCall.result.score =
                    Min(10000,
                        RoundHalfEven(
                            FracMul(Frac(2000 * riskCall.result.time_modifier, 10),
                                    riskCall.result.route_modifier)))

\* a gateway read raised during a daytime call on a short route, and the
\* call returned 20.0
C13_Witness ==
    /\ Predicted
    /\ riskCall.read = "raise"
    /\ ~OuterFailure
    /\ riskCall.result.score = 2000

\* the step is a call that follows the recording of one document after a
\* call of the same request, with the reads ending the same way
CalledAgainAfterOne ==
    /\ riskCall.op = "grown"
    /\ riskCall'.op = "predict_route_risk"
    /\ riskCall'.read = riskCall.read
    /\ riskCall'.at = riskCall.at

\* the type and the severity of the incident recorded are strings
RecordedWellFormed ==
    riskCall.kind = "incident" =>
        riskCall.doc.type # Unhashable /\ riskCall.doc.severity # Unhashable

----------------------------------------------------------------------------
(* Properties of the anomaly engine (SpecAnomaly) *)

\* the last step was a call of detect_anomalies
Detected == anCall.op = "detect_anomalies"

\* the call got past the enrichment and the cache lookup: the four
\* sub-detectors ran
SubDetectorsRan == Detected /\ anCall.result.stored

\* C1: for every user id and every telemetry sequence of length >= 2,
\* malformed points and failing gateway reads and writes included,
\* detect_anomalies does not raise and returns one verdict whose confidence
\* lies in [0, 1] (0..10 tenths).
C1_OneVerdictNeverRaises ==
    (Detected /\ Len(anReq.location_data) >= 2) =>
        /\ ~anCall.result.escaped
        /\ anCall.result.verdict.is_anomaly \in BOOLEAN
        /\ anCall.result.verdict.confidence \in 0..10

\* a call on a sequence with a null speed, whose gateway read and write
\* both raised, has returned a verdict
C1_Witness ==
    /\ Detected
    /\ anCall.read = "raise"
    /\ anCall.write = "raise"
    /\ \E i \in DOMAIN anReq.location_data :
          anReq.location_data[i].malformed = "speed"
    /\ anCall.result.verdict.confidence \in 0..10

\* the time sub-detector's verdict of the call
TimeVerdict == anCall.result.anomalies[4]

\* C8: the time sub-detector flags unusual_time, confidence 0.4, exactly
\* when the hour of the first telemetry point is in 2..5: at hours 2 and 5
\* it does, at hours 1 and 6 it does not.
C8_UnusualTimeIffLateHour ==
    SubDetectorsRan =>
        LET first == anReq.location_data[1].timestamp
        IN  IF 2 * 3600 <= first /\ first < 6 * 3600
            THEN TimeVerdict = Anomaly("unusual_time", 4)
            ELSE TimeVerdict = NoAnomaly

\* a sequence that starts at 05:59:59 has been flagged
C8_Witness ==
    /\ SubDetectorsRan
    /\ anReq.location_data[1].timestamp = 5 * 3600 + 3599
    /\ TimeVerdict = Anomaly("unusual_time", 4)

\* C9: when the calculated speed of some point of a sequence of length >= 2
\* is above the absolute threshold, detect_anomalies returns
\* is_anomaly = true, type excessive_speed, confidence 0.9, whatever the
\* other sub-detectors and the profile report.
C9_ExcessiveSpeedReturned ==
    (/\ SubDetectorsRan
     /\ Len(anReq.location_data) >= 2
     /\ \E i \in DOMAIN anCall.result.processed :
           /\ ~anCall.result.processed[i].speed_none
           /\ anCall.result.processed[i].calculated_speed
                 > MOVEMENT_SPEED_THRESHOLD)
        => anCall.result.verdict = Anomaly("excessive_speed", 9)

\* the speed sub-detector failed during the call: a point after the first
\* has a null speed
SpeedFailed ==
    /\ SubDetectorsRan
    /\ \E i \in 2..Len(anReq.location_data) :
          anReq.location_data[i].malformed = "speed"

\* the enriched sequence the call would have seen with the null speeds
\* absent
Repaired ==
    _process_location_data(
        [i \in DOMAIN anReq.location_data |->
            [anReq.location_data[i] EXCEPT !.malformed = ""]])

\* C14: when a sub-detector fails internally it contributes a verdict with
\* confidence 0, type "error", is_anomaly false; the other sub-detectors
\* still run (their verdicts are those of the same sequence without the
\* failure) and a structured verdict is returned; on total failure the
\* verdict is non-anomalous.
C14_FailureIsContained ==
    /\ SpeedFailed =>
          /\ anCall.result.anomalies[1]
                = [is_anomaly |-> FALSE, confidence |-> 0, type |-> "error"]
          /\ anCall.result.anomalies[2]
                = _detect_pattern_anomaly(Repaired, anCall.result.profile)
          /\ anCall.result.anomalies[3]
                = _detect_location_anomaly(Repaired, anCall.result.profile)
          /\ anCall.result.anomalies[4]
                = _detect_time_anomaly(Repaired, anCall.result.profile)
          /\ \E k \in 1..4 : anCall.result.verdict = anCall.result.anomalies[k]
    /\ (Detected /\ Len(anReq.location_data) >= 2 /\ ~anCall.result.stored) =>
          /\ ~anCall.result.escaped
          /\ ~anCall.result.verdict.is_anomaly
          /\ anCall.result.verdict.confidence = 0

\* the speed sub-detector failed, the location and time sub-detectors
\* fired, and the location verdict was returned
C14_Witness ==
    /\ SpeedFailed
    /\ anCall.result.anomalies[3].is_anomaly
    /\ anCall.result.anomalies[4].is_anomaly
    /\ anCall.result.verdict.type = "unusual_location"

\* some sub-detector fired
Fired == \E k \in 1..4 : anCall.result.anomalies[k].is_anomaly

\* C17: detect_anomalies returns the sub-verdict of the highest confidence
\* among speed, pattern, location and time, the earliest of them on a tie,
\* and the returned verdict has is_anomaly = false if and only if no
\* sub-detector fired.
C17_HighestConfidenceFirst ==
    SubDetectorsRan =>
        /\ \E k \in 1..4 :
              /\ anCall.result.verdict = anCall.result.anomalies[k]
              /\ \A j \in 1..4 : anCall.result.anomalies[j].confidence
                                    <= anCall.result.anomalies[k].confidence
              /\ \A j \in 1..(k - 1) : anCall.result.anomalies[j].confidence
                                          < anCall.result.anomalies[k].confidence
        /\ ~anCall.result.verdict.is_anomaly <=> ~Fired

\* a tie at confidence 0 between the failed speed sub-detector and the
\* three others was settled for the first
C17_Witness ==
    /\ SubDetectorsRan
    /\ ~Fired
    /\ anCall.result.anomalies[1].type = "error"
    /\ anCall.result.anomalies[2].type = "None"
    /\ anCall.result.verdict.type = "error"

\* the enriched sequence of the call
Enriched == anCall.result.processed

\* no numeric calculated speed is above the absolute threshold or above
\* 1.5 times the profile's 99th-percentile speed
Calm ==
    \A i \in DOMAIN Enriched :
        ~Enriched[i].speed_none =>
            /\ Enriched[i].calculated_speed <= MOVEMENT_SPEED_THRESHOLD
            /\ 2 * Enriched[i].calculated_speed
                     * anCall.result.profile.speed_percentile_99.d
                  <= 3 * anCall.result.profile.speed_percentile_99.n

NoNullSpeed == \A i \in DOMAIN Enriched : ~Enriched[i].speed_none

\* C20 as stated: when no calculated speed is above the absolute threshold
\* or above 1.5 times the 99th-percentile speed, the speed sub-detector
\* flags sudden_speed_change (0.7) if and only if the calculated speeds of
\* two consecutive points of the enriched sequence differ by more than
\* 50 km/h.
C20_ConsecutivePointsDiffer ==
    (SubDetectorsRan /\ NoNullSpeed /\ Calm) =>
        (anCall.result.anomalies[1] = Anomaly("sudden_speed_change", 7)
            <=> \E i \in 1..(Len(Enriched) - 1) :
                    Abs(Enriched[i + 1].calculated_speed
                          - Enriched[i].calculated_speed) > 500)

\* the points whose calculated speed is a number above 0
Moving ==
    {i \in DOMAIN Enriched :
        ~Enriched[i].speed_none /\ Enriched[i].calculated_speed > 0}

\* two moving points with no moving point between them differ by more than
\* 50 km/h
MovingJump ==
    \E i, j \in Moving :
        /\ i < j
        /\ \A k \in Moving : ~(i < k /\ k < j)
        /\ Abs(Enriched[j].calculated_speed - Enriched[i].calculated_speed) > 500

\* C20 as amended: under the same condition the speed sub-detector flags
\* sudden_speed_change if and only if no calculated speed is None and two
\* successive entries of the list of the calculated speeds above 0 differ
\* by more than 50 km/h; the points of calculated speed 0, the first point
\* among them, are not in that list.
C20_MovingSpeedsDiffer ==
    (SubDetectorsRan /\ Calm) =>
        (anCall.result.anomalies[1] = Anomaly("sudden_speed_change", 7)
            <=> (NoNullSpeed /\ MovingJump))

\* flagged across a stop: 6 km/h, a minute at rest, then 66 km/h
C20_Witness ==
    /\ SubDetectorsRan
    /\ Calm
    /\ Len(Enriched) = 4
    /\ Enriched[2].calculated_speed = 60
    /\ Enriched[3].calculated_speed = 0
    /\ Enriched[4].calculated_speed = 660
    /\ anCall.result.anomalies[1] = Anomaly("sudden_speed_change", 7)

\* the call missed the cache and the gateway answered its history read
MissedAndRead == SubDetectorsRan /\ anCall.read \in {"ok", "down"}

\* the history the gateway returned to the call
HistoryRead == get_user_location_history(anReq.user_id, now, anCall.read)

\* C23: on a cache miss the profile is the one built from the history when
\* the gateway returns at least 10 points, and the fixed default profile
\* (99th percentile 120 km/h, no frequent location) when it returns fewer.
C23_BuiltFromTenPoints ==
    MissedAndRead =>
        anCall.result.profile =
            IF Len(HistoryRead) >= 10
            THEN _build_user_profile(HistoryRead)
            ELSE [typical_locations |-> <<>>,
                  speed_percentile_99 |-> Frac(1200, 1)]

\* a profile built from exactly ten points, which is not the default one
C23_Witness ==
    /\ MissedAndRead
    /\ Len(HistoryRead) = 10
    /\ anCall.result.profile = _build_user_profile(HistoryRead)
    /\ anCall.result.profile.speed_percentile_99 # Frac(1200, 1)
    /\ anCall.result.profile.typical_locations # <<>>

\* C25: a call whose history read raises on a cache miss goes on with the
\* default profile and leaves the cache as it was, without an entry for
\* the user, and the next call for the user reads the gateway again.
C25_RaisingReadCachesNothing ==
    [][/\ (anCall'.op = "detect_anomalies" /\ anCall'.read = "raise") =>
             /\ user_profiles' = user_profiles
             /\ \A e \in user_profiles' : e.user_id # anReq.user_id
             /\ anCall'.result.profile
                   = [typical_locations |-> <<>>,
                      speed_percentile_99 |-> Frac(1200, 1)]
       /\ (/\ anCall.op = "detect_anomalies"
           /\ anCall.read = "raise"
           /\ anCall'.op = "detect_anomalies") =>
             anCall'.read # "unused"]_vars

\* a call whose read raised has run its sub-detectors against the default
\* profile and the cache holds no entry
C25_Witness ==
    /\ SubDetectorsRan
    /\ anCall.read = "raise"
    /\ user_profiles = {}
    /\ anCall.result.profile = _get_default_profile

\* the verdict of the speed sub-detector of the call
SpeedVerdict == anCall.result.anomalies[1]

\* 1.5 times the 99th-percentile speed of the profile is below the absolute
\* speed threshold
BelowThreshold(user_profile) ==
    3 * user_profile.speed_percentile_99.n
        < 2 * MOVEMENT_SPEED_THRESHOLD * user_profile.speed_percentile_99.d

\* C28: the speed sub-detector returns unusual_speed only when 1.5 times the
\* 99th-percentile speed of the profile is below the absolute speed
\* threshold; with the default profile (99th percentile 120 km/h) and the
\* threshold of 100 km/h it never returns unusual_speed.
C28_UnusualSpeedBelowThreshold ==
    SubDetectorsRan =>
        /\ SpeedVerdict.type = "unusual_speed"
              => BelowThreshold(anCall.result.profile)
        /\ anCall.result.profile.speed_percentile_99 = Frac(1200, 1)
              => SpeedVerdict.type # "unusual_speed"

\* unusual_speed returned against a profile built from a slow history, and
\* never against the default one
C28_Witness ==
    /\ SubDetectorsRan
    /\ SpeedVerdict = Anomaly("unusual_speed", 8)
    /\ anCall.result.profile # _get_default_profile
    /\ BelowThreshold(anCall.result.profile)

----------------------------------------------------------------------------
(* Properties of analyze_patterns (SpecPattern) *)

\* a call of analyze_patterns has returned
Analyzed == paCall.op = "analyze_patterns"

\* the call reached its four stages
StagesRan == Analyzed /\ paCall.read \in {"ok", "down"}

\* the documents the call's two reads returned
DocsRead ==
    get_incidents_in_range(paReq.area.center, paReq.area.radius_m,
                           paReq.time_range.start, paReq.time_range.end,
                           paReq.incident_types, paCall.read)

AlertsRead ==
    get_panic_alerts_in_range(paReq.area.center, paReq.area.radius_m,
                              paReq.time_range.start, paReq.time_range.end,
                              paCall.read)

\* the trends stage returned its dictionary
TrendsKnown == StagesRan /\ DOMAIN paCall.result.trends # {}

\* the events read whose time is in the first, the second half of the range
FirstHalf ==
    LET events == AllEvents(DocsRead, AlertsRead)
    IN  {k \in DOMAIN events :
            2 * events[k].timestamp < paReq.time_range.start
                                        + paReq.time_range.end}

SecondHalf == DOMAIN AllEvents(DocsRead, AlertsRead) \ FirstHalf

\* C11: with at least 4 events, a range of at least 7 days and an event in
\* the first half of the range, trend_direction is 'increasing' when the
\* events of the second half of the range are more than 1.2 times those of
\* the first half, 'decreasing' when they are fewer than 0.8 times, and
\* 'stable' otherwise.
C11_HalvesOfTheRangeCompared ==
    (/\ TrendsKnown
     /\ Cardinality(FirstHalf) + Cardinality(SecondHalf) >= 4
     /\ paReq.time_range.end - paReq.time_range.start >= 7
     /\ FirstHalf # {})
        => paCall.result.trends.trend_direction =
              IF 5 * Cardinality(SecondHalf) > 6 * Cardinality(FirstHalf)
              THEN "increasing"
              ELSE IF 5 * Cardinality(SecondHalf) < 4 * Cardinality(FirstHalf)
              THEN "decreasing"
              ELSE "stable"

\* the hotspots the call returned; the points they are made of
Hotspots == paCall.result.hotspots

PointsRead == AllPoints(DocsRead, AlertsRead)

\* C12: every hotspot analyze_patterns returns has at least
\* MIN_INCIDENTS_FOR_HOTSPOT member points, all of them distinct points the
\* call read; so four incidents close to each other, alone in the area,
\* give no hotspot.
C12_HotspotHasMinimumMembers ==
    StagesRan =>
        /\ \A k \in DOMAIN Hotspots :
              /\ Hotspots[k].incident_count >= MIN_INCIDENTS_FOR_HOTSPOT
              /\ Cardinality(Range(Hotspots[k].points))
                    = Hotspots[k].incident_count
              /\ Range(Hotspots[k].points) \subseteq DOMAIN PointsRead
        /\ Len(PointsRead) < MIN_INCIDENTS_FOR_HOTSPOT => Hotspots = <<>>

\* nine incidents are read, five at one place and four within 100 m of
\* each other at another, and only the place with five is a hotspot
C12_Witness ==
    /\ StagesRan
    /\ Len(PointsRead) = 9
    /\ Len(Hotspots) = 1
    /\ \E S \in SUBSET DOMAIN PointsRead :
          /\ Cardinality(S) = 4
          /\ S \cap Range(Hotspots[1].points) = {}
          /\ \A i, j \in S :
                Geodesic([lat |-> PointsRead[i].lat, lng |-> PointsRead[i].lng],
                         [lat |-> PointsRead[j].lat, lng |-> PointsRead[j].lng])
                   <= 100

\* the clusters of the points read that _cluster_points retains, each with
\* the score _rank_hotspots gives it, in the order they were formed
RetainedScored ==
    LET clusters == _cluster_points(PointsRead, HOTSPOT_RADIUS)
    IN  [k \in DOMAIN clusters |-> Hotspot(PointsRead, clusters[k], now)]

\* the retained clusters that are not among the hotspots returned
LeftOut ==
    {k \in DOMAIN RetainedScored :
        \A j \in DOMAIN Hotspots :
            Hotspots[j].points # RetainedScored[k].points}

\* C18: analyze_patterns returns at most 10 hotspots, each a retained
\* cluster, in the order of non-increasing risk score, and no retained
\* cluster that is left out has a higher score than a returned one.
C18_TopTenByScore ==
    StagesRan =>
        /\ Len(Hotspots) <= 10
        /\ \A j \in DOMAIN Hotspots :
              \E k \in DOMAIN RetainedScored : Hotspots[j] = RetainedScored[k]
        /\ \A i, j \in DOMAIN Hotspots :
              i < j => Hotspots[i].risk_score >= Hotspots[j].risk_score
        /\ \A k \in LeftOut : \A j \in DOMAIN Hotspots :
              RetainedScored[k].risk_score <= Hotspots[j].risk_score

\* eleven clusters are retained, ten are returned, and the cluster with
\* the highest score, formed last, is returned first
C18_Witness ==
    /\ StagesRan
    /\ Len(RetainedScored) = 11
    /\ Len(Hotspots) = 10
    /\ Cardinality(LeftOut) = 1
    /\ Hotspots[1] = RetainedScored[11]
    /\ Hotspots[1].risk_score > Hotspots[2].risk_score
    /\ Hotspots[2].risk_score > Hotspots[10].risk_score

\* the risk zones the call returned; the cells of the grid of its area
Zones == paCall.result.risk_zones

Cells == Range(GridCells(paReq.area.center, paReq.area.radius_m))

\* the locations of the incidents and of the alerts the call read
IncidentLocs == [k \in DOMAIN DocsRead |-> DocsRead[k].loc]

AlertLocs == [k \in DOMAIN AlertsRead |-> AlertsRead[k].loc]

\* the locations of the list that lie in a cell
CountIn(locs, cell) ==
    Cardinality({k \in DOMAIN locs : InCell(locs[k], cell.lat, cell.lng)})

\* the weighted count of a cell
Weighted(ilocs, alocs, cell) ==
    2 * CountIn(ilocs, cell) + 3 * CountIn(alocs, cell)

\* the cell is returned as a risk zone
IsZone(zones, cell) == \E j \in DOMAIN zones : zones[j].center = cell

\* every zone returned is a cell whose weighted count is its risk_score
\* and is at least 3, and the list has at most 20 zones in the order of
\* non-increasing score
ZonesAreRankedCells(zones, cells, ilocs, alocs) ==
    /\ \A j \in DOMAIN zones :
          /\ zones[j].center \in cells
          /\ zones[j].risk_score = Weighted(ilocs, alocs, zones[j].center)
          /\ zones[j].risk_score >= 3
    /\ Len(zones) <= 20
    /\ \A i, j \in DOMAIN zones :
          i < j => zones[i].risk_score >= zones[j].risk_score

\* a cell with one incident and no alert is no risk zone
LoneIncidentIsNoZone(zones, cells, ilocs, alocs) ==
    \A cell \in cells :
        (CountIn(ilocs, cell) = 1 /\ CountIn(alocs, cell) = 0)
            => ~IsZone(zones, cell)

\* the cells with a single alert and no incident
SingleAlertCells(cells, ilocs, alocs) ==
    {cell \in cells : CountIn(ilocs, cell) = 0 /\ CountIn(alocs, cell) = 1}

\* C19 as stated: a cell is returned as a risk zone only if 2 x incidents
\* + 3 x alerts >= 3, its risk_score is that weighted count, at most 20
\* zones are returned in the order of non-increasing score, a cell with a
\* single incident and no alert is never a zone and a cell with a single
\* alert is one.
C19_SingleAlertCellIsZone ==
    StagesRan =>
        \A zones \in {Zones}, cells \in {Cells},
           ilocs \in {IncidentLocs}, alocs \in {AlertLocs} :
            /\ ZonesAreRankedCells(zones, cells, ilocs, alocs)
            /\ LoneIncidentIsNoZone(zones, cells, ilocs, alocs)
            /\ \A cell \in SingleAlertCells(cells, ilocs, alocs) :
                  IsZone(zones, cell)

\* C19 amended: as above, but a cell with a single alert is a zone
\* provided at most 20 cells reach the threshold; when more do, 20 zones
\* are returned, none with a lower score than a cell that is left out.
C19_SingleAlertCellIsZoneUpToTwenty ==
    StagesRan =>
        \A zones \in {Zones}, cells \in {Cells},
           ilocs \in {IncidentLocs}, alocs \in {AlertLocs} :
            /\ ZonesAreRankedCells(zones, cells, ilocs, alocs)
            /\ LoneIncidentIsNoZone(zones, cells, ilocs, alocs)
            /\ \A cell \in cells :
                  (Weighted(ilocs, alocs, cell) >= 3 /\ ~IsZone(zones, cell))
                      => /\ Len(zones) = 20
                         /\ \A j \in DOMAIN zones :
                               zones[j].risk_score
                                  >= Weighted(ilocs, alocs, cell)

\* 21 cells hold a single alert, 20 of them are returned and one is left
\* out, and a cell with a single incident is no zone
C19_Witness ==
    /\ StagesRan
    /\ Len(Zones) = 20
    /\ \E cells \in {Cells}, ilocs \in {IncidentLocs}, alocs \in {AlertLocs} :
          /\ Cardinality(SingleAlertCells(cells, ilocs, alocs)) = 21
          /\ \E cell \in SingleAlertCells(cells, ilocs, alocs) :
                ~IsZone(Zones, cell)
          /\ \E cell \in cells :
                /\ CountIn(ilocs, cell) = 1
                /\ CountIn(alocs, cell) = 0
                /\ ~IsZone(Zones, cell)

\* the documents read, had every time been handed over as a datetime
AsDates(docs) == [k \in DOMAIN docs |-> [docs[k] EXCEPT !.stamp = "date"]]

\* the hotspot stage failed: a time handed over as text belongs to a
\* point of a retained cluster
HotspotsFailed ==
    /\ StagesRan
    /\ \E points \in {PointsRead} :
          \E clusters \in {_cluster_points(points, HOTSPOT_RADIUS)} :
              \E k \in DOMAIN clusters :
                  \E i \in Range(clusters[k].points) : points[i].stamp = "text"

\* the trend stage failed: it sorted times of both kinds
TrendsFailed ==
    /\ StagesRan
    /\ Len(PointsRead) >= 4
    /\ paReq.time_range.end - paReq.time_range.start >= 7
    /\ {PointsRead[k].stamp : k \in DOMAIN PointsRead} = {"date", "text"}

\* the four stages as they end without a failure
SoundHotspots == _identify_hotspots(AsDates(DocsRead), AsDates(AlertsRead), now)

SoundTrends ==
    _analyze_trends(AsDates(DocsRead), AsDates(AlertsRead),
                    paReq.time_range.start, paReq.time_range.end)

SoundZones ==
    _identify_risk_zones(AsDates(DocsRead), AsDates(AlertsRead),
                         paReq.area.center, paReq.area.radius_m)

\* C15: analyze_patterns returns a record of the four fields hotspots,
\* trends, risk_zones and insights whatever happens; after a failure
\* before the stages all four are empty; a stage that fails returns its
\* empty default and every other stage returns what it returns without
\* the failure, the insights being drawn from the hotspots and trends
\* returned.
C15_StageFailureIsContained ==
    /\ Analyzed =>
          DOMAIN paCall.result = {"hotspots", "trends", "risk_zones", "insights"}
    /\ (Analyzed /\ ~StagesRan) =>
          /\ Hotspots = <<>>
          /\ DOMAIN paCall.result.trends = {}
          /\ Zones = <<>>
          /\ paCall.result.insights = <<>>
    /\ StagesRan =>
          /\ Hotspots = IF HotspotsFailed THEN <<>> ELSE SoundHotspots
          /\ IF TrendsFailed THEN DOMAIN paCall.result.trends = {}
             ELSE paCall.result.trends = SoundTrends
          /\ Zones = SoundZones
          /\ paCall.result.insights
                = _generate_insights(DocsRead, AlertsRead, Hotspots,
                                     paCall.result.trends)

\* the trend stage failed and returned {} while hotspots, risk zones and
\* insights were returned
C15_Witness ==
    /\ TrendsFailed
    /\ ~HotspotsFailed
    /\ DOMAIN paCall.result.trends = {}
    /\ Hotspots # <<>>
    /\ Zones # <<>>
    /\ paCall.result.insights = <<"hotspot">>

\* the type weight the specification states for a point of a hotspot, in
\* tenths: crime 3, accident 2, medical 1.5, fire 2.5, other 1, and 3 for
\* every panic alert
StatedTypeWeight(point) ==
    IF point.type = "panic_alert" THEN 30
    ELSE CASE point.subtype = "crime"    -> 30
           [] point.subtype = "accident" -> 20
           [] point.subtype = "medical"  -> 15
           [] point.subtype = "fire"     -> 25
           [] OTHER                      -> 10

\* C21: the raw risk score of every hotspot returned is the sum over its
\* member points of severity weight times type weight, the type weights
\* being crime 3, accident 2, medical 1.5, fire 2.5, other 1 and 3 for
\* every panic alert.
C21_RawScoreByStatedWeights ==
    StagesRan =>
        \A points \in {PointsRead} :
            \A k \in DOMAIN Hotspots :
                10 * Hotspots[k].raw_score
                    = SumSeq([j \in DOMAIN Hotspots[k].points |->
                                SeverityWeight(points[Hotspots[k].points[j]].severity)
                                  * StatedTypeWeight(points[Hotspots[k].points[j]])])

\* the number of events the call read and the days of its range
EventCount == Len(DocsRead) + Len(AlertsRead)

TotalDays == paReq.time_range.end - paReq.time_range.start

CountedIncidents(zones) ==
    SumSeq([j \in DOMAIN zones |-> zones[j].incident_count])

CountedAlerts(zones) ==
    SumSeq([j \in DOMAIN zones |-> zones[j].alert_count])

\* C27: every incident and every panic alert is counted in at most one cell
\* of the grid, a point on the border of two cells included, so the
\* incident_count of the cells sum to at most the number of incidents read
\* and the alert_count to at most the number of alerts read.
C27_CountedInOneCell ==
    StagesRan =>
        \A zones \in {Zones} :
            /\ CountedIncidents(zones) <= Len(DocsRead)
            /\ CountedAlerts(zones) <= Len(AlertsRead)

----------------------------------------------------------------------------
(* Properties of concurrent calls of detect_anomalies (SpecRace) *)

\* the cache's entries for the user of the calls
UserEntries == {e \in user_profiles : e.user_id = anReq.user_id}

\* a complete profile: the default one or the one built from a history
\* the gateway returned to one of the calls
CompleteProfiles ==
    {_get_default_profile}
        \cup {ProfileOf(rcLocal[w].history) :
                w \in {v \in Workers : rcPc[v] \in {"store", "detect", "done"}}}

\* the profiles the calls have produced for the cache
Produced ==
    {rcLocal[w].profile :
        w \in {v \in Workers : rcPc[v] \in {"store", "detect", "done"}}}

\* C16: in every interleaving of calls of detect_anomalies for one user,
\* the user's cache entry is at every moment absent or one complete
\* profile that one of the calls produced, and every call runs its
\* sub-detectors against a complete profile and returns a verdict.
C16_CacheNeverCorrupted ==
    /\ Cardinality(UserEntries) <= 1
    /\ \A e \in UserEntries :
          e.profile \in Produced /\ e.profile \in CompleteProfiles
    /\ \A w \in Workers :
          rcPc[w] \in {"detect", "done"} =>
              rcLocal[w].profile \in CompleteProfiles
    /\ \A w \in Workers :
          rcPc[w] = "done" =>
              rcLocal[w].verdict.is_anomaly \in BOOLEAN

\* two calls missed the cache and built different profiles, both have
\* stored theirs and finished
C16_Witness ==
    /\ \A w \in Workers : rcPc[w] = "done"
    /\ \E v, w \in Workers :
          /\ rcLocal[v].profile # rcLocal[w].profile
          /\ rcLocal[v].profile = ProfileOf(rcLocal[v].history)
          /\ rcLocal[w].profile = ProfileOf(rcLocal[w].history)
          /\ EnoughHistory(rcLocal[w].history)
          /\ UserEntries = {[user_id |-> anReq.user_id,
                             profile |-> rcLocal[v].profile]}

\* C24: in every execution, concurrent calls for one user included, the
\* user's cache entry is written at most once and never changes afterwards:
\* no step writes the cache once it holds an entry for the user.
C24_CachedOnce ==
    [][UserEntries # {} =>
          /\ user_profiles' = user_profiles
          /\ \A w \in Workers : ~(rcPc[w] = "store" /\ rcPc'[w] = "detect")]_vars

----------------------------------------------------------------------------
(* Properties of the two engines' persistence (SpecPersist) *)

\* what the last call of each engine returns when nothing is written
RiskUnwritten ==
    predict_route_risk(riskReq.route, riskReq.time_of_day, riskReq.user_id,
                       riskCall.at, riskCall.read)

AnomalyUnwritten ==
    detect_anomalies(anReq.user_id, anReq.location_data, now,
                     IF anCall.read = "unused" THEN "ok" ELSE anCall.read)

----------------------------------------------------------------------------
(* Properties of _assess_threat_level (SpecThreat) *)

\* a call of _assess_threat_level has returned an assessment
Assessed == thCall.op = "_assess_threat_level" /\ ~thCall.result.raised

\* C30: for every location, user profile and context the threat score of
\* _assess_threat_level lies in 20..45 and the level is 'low' or
\* 'moderate': 'high' and 'critical' are never returned.
C30_LowOrModerateOnly ==
    Assessed =>
        /\ thCall.result.score \in 20..45
        /\ thCall.result.level \in {"low", "moderate"}

\* the highest assessment: a night of poor weather, score 45, moderate
C30_Witness ==
    /\ Assessed
    /\ thReq.context.time_of_day = "night"
    /\ thReq.context.weather = "foggy"
    /\ thCall.result.score = 45
    /\ thCall.result.level = "moderate"
    /\ Len(thCall.result.factors) = 2

============================================================================
